---------------------------- MODULE Spec2Model ----------------------------
(***************************************************************************)
(* Model of the persistent batch processor of kat/src/lib/batch-processor.ts *)
(* (class BatchProcessor) running on the single-threaded JavaScript event  *)
(* loop.  One step of the model is one run-to-completion piece of code:    *)
(* either a macrotask (the init call, an add call, a timer firing, the     *)
(* completion of a store write or of the batch callback, one millisecond   *)
(* passing) or one                                                         *)
(* microtask (the continuation of an await on a promise that is settled).  *)
(* Macrotasks are taken only when the microtask queue is empty, microtasks *)
(* run in FIFO order.                                                      *)
(*                                                                         *)
(* Time is kept as differences from Date.now(): every timestamp is         *)
(* represented by its age (now - timestamp), every timer by the time left  *)
(* until it is due.  Ages saturate just above the largest value the code   *)
(* compares them with.                                                     *)
(***************************************************************************)
EXTENDS Integers, Sequences, FiniteSets, TLC

\* ---- bounds of the model ----
\* number of add calls made on the processor
MaxRecords == 3
\* number of attempts of one processBatch that are allowed to fail
MaxFailures == 2
\* number of incomplete batches handed to init ("there should be a maximum
\* of two, for the author+type combination")
MaxIncomplete == 2
\* number of batches there can be: each new one takes at least one record
MaxBatches == MaxIncomplete + MaxRecords

\* ---- IBatchProcessorConfig ----
addTimeoutMS == 1
batchTimeoutArrivallMS == 1
batchTimeoutOverallMS == 2
\* utils.constants.BATCH_MAX_RECORDS, the batchMaxRecords of a processor
\* constructed without a config of its own
BATCH_MAX_RECORDS == 2
retryInitialDelayMS == 1
retryMaxDelayMS == 2
retryMultiplier == 3

VARIABLES
    batchMaxRecords, \* this.config.batchMaxRecords, as the constructor set it
    initPc,          \* init(): "ready" = not called yet, "running", "done" = returned
    incompleteBatches, \* the argument of init(): the batchIDs not yet shifted out
    assemblyList,    \* this.assemblyList: queue of tasks [rec, age]
    assembling,      \* this.assembling
    assemblyBatch,   \* this.assemblyBatch: a batchID, 0 = undefined
    dispatchTimeout, \* this.dispatchTimeout: a timer handle, 0 = undefined
    batchInFlight,   \* this.batchInFlight: the batch whose processBatch promise it is, 0 = undefined
    batches,         \* the IDBBatch objects ever created, indexed by batchID
    timers,          \* the timer handles ever returned by setTimeout
    waiters,         \* dispatchBatch calls suspended on a pending batchInFlight promise
    microtasks,      \* continuations that are ready to run, in FIFO order
    asmPc,           \* where the running assembler is suspended
    chosen,          \* the assembler's local variable chosen
    asmBatch,        \* the assembler's local variable batch
    task,            \* per add call: the state of its promise
    persisted,       \* the store: the record list last written by upsertBatch, per batchID
    nextRec,         \* number of add calls made so far
    completeCalls,   \* number of calls of processorCompleteCallback
    burst,           \* the add calls so far were made back to back, no other step between them
    lastEvent        \* what the last step was

\* ---- internal/tokens/fftokens: the goroutine running FFTokens.eventLoop ----
VARIABLES
    loopPc,          \* eventLoop(): "none" = not started, "select" = at the select, "returned"
    returnedAt,      \* the source line of the return statement that ended the loop, 0 = none
    ctxDone,         \* h.ctx has been cancelled
    received,        \* the messages taken from h.wsconn.Receive() so far
    wire             \* the calls made on h.callbacks and h.wsconn so far, with what they returned

fftokensVars == <<loopPc, returnedAt, ctxDone, received, wire>>

\* ---- internal/privatemessaging, internal/broadcast: one dispatcher at work ----
VARIABLES
    dispatcherPc,    \* where the dispatcher is: [at, node, data], at = "none" before it is called
    dispatcherArgs,  \* the arguments of dispatchBatch: the batch, and the nodes of its group
    dispatcherCalls, \* the calls made on the collaborators so far, with what they returned
    dispatcherErr,   \* what the last call of dispatchBatch returned
    dispatcherRuns   \* number of calls of dispatchBatch made for the batch

dispatcherVars == <<dispatcherPc, dispatcherArgs, dispatcherCalls, dispatcherErr, dispatcherRuns>>

\* ---- asset trade handler: one call of processPrivateAssetInstanceRequest ----
VARIABLES
    tradePc,         \* where the call is: "none" before the request, the await it is suspended on,
                     \* "returned", or "rejected" when its promise was rejected
    tradeResponse,   \* the local variable tradeResponse
    tradeLocals,     \* the asset definition the call has retrieved
    authorization,   \* handlePrivateAssetInstanceAuthorization: its timeout and its listener
    dispatched       \* the messages handed to app2app.dispatchMessage so far

tradeVars == <<tradePc, tradeResponse, tradeLocals, authorization, dispatched>>

vars == <<batchMaxRecords, initPc, incompleteBatches, assemblyList, assembling, assemblyBatch, dispatchTimeout, batchInFlight,
          batches, timers, waiters, microtasks, asmPc, chosen, asmBatch, task,
          persisted, nextRec, completeCalls, burst, lastEvent, fftokensVars, dispatcherVars,
          tradeVars>>

Records == 1..MaxRecords

Min(a, b) == IF a < b THEN a ELSE b
Max(a, b) == IF a > b THEN a ELSE b

\* The program state as one record, so that the code's statements compose.
Cur ==
    [initPc |-> initPc, incompleteBatches |-> incompleteBatches,
     assemblyList |-> assemblyList, assembling |-> assembling,
     assemblyBatch |-> assemblyBatch, dispatchTimeout |-> dispatchTimeout,
     batchInFlight |-> batchInFlight, batches |-> batches, timers |-> timers,
     waiters |-> waiters, microtasks |-> microtasks, asmPc |-> asmPc,
     chosen |-> chosen, asmBatch |-> asmBatch, task |-> task,
     persisted |-> persisted, completeCalls |-> completeCalls, examined |-> FALSE]

\* The value of x, computed once, handed to F (a local constant of the code).
With(x, F(_)) == CHOOSE r \in {F(v) : v \in {x}} : TRUE

Becomes(s0, ev) ==
    \E s \in {s0} :
        /\ initPc' = s.initPc
        /\ incompleteBatches' = s.incompleteBatches
        /\ assemblyList' = s.assemblyList
        /\ assembling' = s.assembling
        /\ assemblyBatch' = s.assemblyBatch
        /\ dispatchTimeout' = s.dispatchTimeout
        /\ batchInFlight' = s.batchInFlight
        /\ batches' = s.batches
        /\ timers' = s.timers
        /\ waiters' = s.waiters
        /\ microtasks' = s.microtasks
        /\ asmPc' = s.asmPc
        /\ chosen' = s.chosen
        /\ asmBatch' = s.asmBatch
        /\ task' = s.task
        /\ persisted' = s.persisted
        /\ completeCalls' = s.completeCalls
        /\ lastEvent' = [ev |-> ev, examined |-> s.examined]
        /\ UNCHANGED <<batchMaxRecords, fftokensVars, dispatcherVars, tradeVars>>

\* Array.prototype.slice(start, end) and slice(start), 0-based, end exclusive,
\* a negative end counting from the end of the array.
slice(list, start, end) ==
    LET e == IF end < 0 THEN Max(Len(list) + end, 0) ELSE Min(end, Len(list))
        b == Min(start, Len(list))
    IN  IF e <= b THEN <<>> ELSE SubSeq(list, b + 1, e)

sliceFrom(list, start) ==
    LET b == IF start < 0 THEN Max(Len(list) + start, 0) ELSE Min(start, Len(list))
    IN  SubSeq(list, b + 1, Len(list))

\* settle the promises of a list of tasks
settle(s, tasks, st, batchID) ==
    [s EXCEPT !.task = [r \in Records |->
        IF \E i \in 1..Len(tasks) : tasks[i].rec = r
        THEN [st |-> st, batchID |-> batchID]
        ELSE @[r]]]

\* variant: the tasks the assembler has taken are checked for staleness too
rejectAnyStaleAlsoChosen(s0) ==
    With(s0, LAMBDA s :
    With(SelectSeq(s.assemblyList \o s.chosen, LAMBDA a : a.age > addTimeoutMS), LAMBDA stale :
    With(SelectSeq(s.assemblyList, LAMBDA a : ~(a.age > addTimeoutMS)), LAMBDA newAssemblyList :
        [settle(s, stale, "timeout", 0) EXCEPT
            !.assemblyList = newAssemblyList,
            !.chosen = SelectSeq(@, LAMBDA a : ~(a.age > addTimeoutMS)),
            !.examined = TRUE])))

rejectAnyStale(s0) ==
    With(s0, LAMBDA s :
    With(SelectSeq(s.assemblyList, LAMBDA a : a.age > addTimeoutMS), LAMBDA stale :
    With(SelectSeq(s.assemblyList, LAMBDA a : ~(a.age > addTimeoutMS)), LAMBDA newAssemblyList :
        [settle(s, stale, "timeout", 0) EXCEPT
            !.assemblyList = newAssemblyList,
            !.examined = TRUE])))

newBatch(s) ==
    [s EXCEPT
        !.batches = Append(@, [records |-> <<>>, age |-> 0, sinceRecord |-> 0,
                               completedAge |-> 0 - 1,
                               pc |-> "none", attempt |-> 0, sleep |-> 0, starts |-> 0,
                               callbacks |-> 0, cbFails |-> 0,
                               upserts |-> 0, upFails |-> 0]),
        !.persisted = Append(@, <<>>),
        !.assemblyBatch = Len(s.batches) + 1]

\* variant: the capacity is filled from the back of the queue
assemblerTakeNewest(s1) ==
    With(IF s1.assemblyBatch = 0 THEN newBatch(s1) ELSE s1, LAMBDA s2 :
        LET batch == s2.assemblyBatch
            capacity == batchMaxRecords - Len(s2.batches[batch].records)
            keep == Max(Len(s2.assemblyList) - capacity, 0)
        IN  With(sliceFrom(s2.assemblyList, keep), LAMBDA picked :
                settle([s2 EXCEPT
                          !.chosen = picked,
                          !.asmBatch = batch,
                          !.assemblyList = slice(s2.assemblyList, 0, keep),
                          !.batches[batch].records =
                              @ \o [i \in 1..Len(picked) |-> picked[i].rec],
                          !.batches[batch].sinceRecord = IF Len(picked) > 0 THEN 0 ELSE @,
                          !.asmPc = "upsert"],
                       picked, "chosen", 0)))

\* variant: the whole queue is taken, whatever room the batch has
assemblerTakeWholeQueue(s1) ==
    With(IF s1.assemblyBatch = 0 THEN newBatch(s1) ELSE s1, LAMBDA s2 :
        LET batch == s2.assemblyBatch
        IN  With(s2.assemblyList, LAMBDA picked :
                settle([s2 EXCEPT
                          !.chosen = picked,
                          !.asmBatch = batch,
                          !.assemblyList = <<>>,
                          !.batches[batch].records =
                              @ \o [i \in 1..Len(picked) |-> picked[i].rec],
                          !.batches[batch].sinceRecord = IF Len(picked) > 0 THEN 0 ELSE @,
                          !.asmPc = "upsert"],
                       picked, "chosen", 0)))

\* The body of the while loop of assembler() up to the await of upsertBatch.
assemblerTake(s1) ==
    With(IF s1.assemblyBatch = 0 THEN newBatch(s1) ELSE s1, LAMBDA s2 :
        LET batch == s2.assemblyBatch
            capacity == batchMaxRecords - Len(s2.batches[batch].records)
        IN  With(slice(s2.assemblyList, 0, capacity), LAMBDA picked :
                settle([s2 EXCEPT
                          !.chosen = picked,
                          !.asmBatch = batch,
                          !.assemblyList = sliceFrom(s2.assemblyList, capacity),
                          !.batches[batch].records =
                              @ \o [i \in 1..Len(picked) |-> picked[i].rec],
                          !.batches[batch].sinceRecord = IF Len(picked) > 0 THEN 0 ELSE @,
                          !.asmPc = "upsert"],
                       picked, "chosen", 0)))

\* variant: the loop condition tests this.assemblyList.length without
\* evicting the stale tasks
assemblerLoopNoStaleCheck(s0) ==
    With(s0, LAMBDA s1 :
        IF Len(s1.assemblyList) = 0
        THEN [s1 EXCEPT !.assembling = FALSE, !.asmPc = "idle",
                        !.chosen = <<>>, !.asmBatch = 0]
        ELSE assemblerTake(s1))

\* One pass of the while loop of assembler() from its condition to the
\* await of upsertBatch, or the exit of the loop.
assemblerLoop(s0) ==
    With(rejectAnyStale(s0), LAMBDA s1 :
        IF Len(s1.assemblyList) = 0
        THEN [s1 EXCEPT !.assembling = FALSE, !.asmPc = "idle",
                        !.chosen = <<>>, !.asmBatch = 0]
        ELSE assemblerTake(s1))

\* variant: a call that finds an assembler running returns at once
assemblerNoStaleCheck(s0) ==
    With(s0, LAMBDA s :
        IF s.assembling THEN s
        ELSE assemblerLoop([rejectAnyStale(s) EXCEPT !.assembling = TRUE]))

\* variant: the assembling flag is not tested, every call runs the loop
assemblerReentrant(s) ==
    With(rejectAnyStale(s), LAMBDA s1 :
        assemblerLoop([s1 EXCEPT !.assembling = TRUE]))

assembler(s) ==
    With(rejectAnyStale(s), LAMBDA s1 :
        IF s1.assembling THEN s1
        ELSE assemblerLoop([s1 EXCEPT !.assembling = TRUE]))

add(s, r) ==
    assembler([s EXCEPT
        !.assemblyList = Append(@, [rec |-> r, age |-> 0]),
        !.task[r] = [st |-> "queued", batchID |-> 0]])

RECURSIVE retryDelayLoop(_, _, _)
retryDelayLoop(retryDelay, i, attempt) ==
    IF i < attempt
    THEN retryDelayLoop(retryDelay * retryMultiplier, i + 1, attempt)
    ELSE retryDelay

\* variant: the delay is not capped by retryMaxDelayMS
retryDelayOfUncapped(attempt) ==
    retryDelayLoop(retryInitialDelayMS, 1, attempt)

retryDelayOf(attempt) ==
    Min(retryDelayLoop(retryInitialDelayMS, 1, attempt), retryMaxDelayMS)

\* variant: batch.completed is set by the first attempt only
processBatchAttemptStampsOnce(s, b) ==
    [s EXCEPT !.batches[b].attempt = @ + 1,
              !.batches[b].completedAge = IF @ < 0 THEN 0 ELSE @,
              !.batches[b].callbacks = @ + 1,
              !.batches[b].pc = "callback"]

\* The start of one attempt of processBatch up to the await of the callback.
processBatchAttempt(s, b) ==
    [s EXCEPT !.batches[b].attempt = @ + 1,
              !.batches[b].completedAge = 0,
              !.batches[b].callbacks = @ + 1,
              !.batches[b].pc = "callback"]

\* processBatch(batch) up to its first await.
processBatch(s, b) ==
    processBatchAttempt([s EXCEPT !.batches[b].starts = @ + 1,
                                  !.batches[b].attempt = 0], b)

\* The await of the callback or of upsertBatch in processBatch throws.
processBatchThrows(s, b) ==
    IF s.batches[b].pc = "callback"
    THEN [s EXCEPT !.batches[b].cbFails = @ + 1]
    ELSE [s EXCEPT !.batches[b].upFails = @ + 1]

\* variant: processBatch stops retrying after its second failed attempt
processBatchCatchGivesUp(s, b) ==
    IF s.batches[b].attempt >= 2
    THEN [s EXCEPT !.batches[b].pc = "abandoned"]
    ELSE [processBatchThrows(s, b) EXCEPT
                   !.batches[b].pc = "sleep",
                   !.batches[b].sleep = retryDelayOf(s.batches[b].attempt)]

\* variant: a failed attempt is reported to the callers of the batch's records
processBatchCatchRejects(s, b) ==
    With(s.batches[b].records, LAMBDA recs :
        [settle(processBatchThrows(s, b),
                [i \in 1..Len(recs) |-> [rec |-> recs[i], age |-> 0]], "failed", 0)
            EXCEPT !.batches[b].pc = "sleep",
                   !.batches[b].sleep = retryDelayOf(s.batches[b].attempt)])

\* variant: the catch block writes the batch to the store before it sleeps
processBatchCatchPersists(s, b) ==
    [processBatchThrows(s, b) EXCEPT
              !.batches[b].upserts = @ + 1,
              !.persisted[b] = s.batches[b].records,
              !.batches[b].pc = "sleep",
              !.batches[b].sleep = retryDelayOf(s.batches[b].attempt)]

\* The catch block of processBatch up to the await of delay().
processBatchCatch(s, b) ==
    [processBatchThrows(s, b) EXCEPT
              !.batches[b].pc = "sleep",
              !.batches[b].sleep = retryDelayOf(s.batches[b].attempt)]

\* processBatch: the callback returned, upsertBatch is called and awaited.
processBatchCallbackReturned(s, b) ==
    [s EXCEPT !.batches[b].upserts = @ + 1, !.batches[b].pc = "upsert"]

\* The promise of processBatch(b) resolves: the continuations waiting on it
\* are queued in the order they were registered.
resolveInFlight(s, b) ==
    With(SelectSeq(s.waiters, LAMBDA w : w.on = b), LAMBDA ready :
        [s EXCEPT
            !.microtasks = @ \o [i \in 1..Len(ready) |->
                                   [k |-> "dispatch", origin |-> ready[i].origin,
                                    forBatch |-> ready[i].forBatch]],
            !.waiters = SelectSeq(@, LAMBDA w : w.on # b)])

\* processBatch from the return of its upsertBatch to its end.
processBatchComplete(s, b) ==
    With([s EXCEPT !.batches[b].pc = "done", !.batches[b].attempt = 0,
                   !.batches[b].callbacks = 0, !.batches[b].cbFails = 0,
                   !.batches[b].upserts = 0, !.batches[b].upFails = 0,
                   !.persisted[b] = s.batches[b].records,
                   !.completeCalls = IF s.assemblyBatch = 0 THEN @ + 1 ELSE @],
         LAMBDA s1 : resolveInFlight(s1, b))

clearTimeout(s, h) ==
    IF h # 0 /\ s.timers[h].st = "armed"
    THEN [s EXCEPT !.timers[h].st = "cleared", !.timers[h].left = 0]
    ELSE s

\* The return of an async function: a call made by the assembler or by init
\* is awaited there, so its return queues the caller's continuation.
returnTo(s, origin) ==
    IF origin \in {"assembler", "init"}
    THEN [s EXCEPT !.microtasks =
             Append(@, [k |-> origin, origin |-> origin, forBatch |-> 0])]
    ELSE s

\* variant: the batch is not taken out of the slot (delete this.assemblyBatch missing)
dispatchBatchBodyKeepsSlot(s, origin) ==
    With(clearTimeout(s, s.dispatchTimeout), LAMBDA s1 :
        LET batch == s1.assemblyBatch
        IN  IF batch = 0
            THEN returnTo([s1 EXCEPT !.dispatchTimeout = 0], origin)
            ELSE returnTo(processBatch([s1 EXCEPT !.dispatchTimeout = 0,
                                                  !.batchInFlight = batch], batch),
                          origin))

\* dispatchBatch after its await, to its end.
dispatchBatchBody(s, origin) ==
    With(clearTimeout(s, s.dispatchTimeout), LAMBDA s1 :
        LET batch == s1.assemblyBatch
        IN  IF batch = 0
            THEN returnTo([s1 EXCEPT !.assemblyBatch = 0, !.dispatchTimeout = 0], origin)
            ELSE returnTo(processBatch([s1 EXCEPT !.assemblyBatch = 0,
                                                  !.dispatchTimeout = 0,
                                                  !.batchInFlight = batch], batch),
                          origin))

\* variant: dispatchBatch does not await the batch in flight
dispatchBatchNoWait(s, origin) ==
    dispatchBatchBody(s, origin)

\* variant: a dispatchBatch called by the timer does not await the batch in flight
dispatchBatchTimerNoWait(s, origin) ==
    IF s.batchInFlight # 0 /\ origin # "timer"
    THEN IF s.batches[s.batchInFlight].pc = "done"
         THEN [s EXCEPT !.microtasks =
                  Append(@, [k |-> "dispatch", origin |-> origin,
                             forBatch |-> s.assemblyBatch])]
         ELSE [s EXCEPT !.waiters =
                  Append(@, [on |-> s.batchInFlight, origin |-> origin,
                             forBatch |-> s.assemblyBatch])]
    ELSE dispatchBatchBody(s, origin)

\* dispatchBatch from its call to its first suspension or its end.
dispatchBatch(s, origin) ==
    IF s.batchInFlight # 0
    THEN IF s.batches[s.batchInFlight].pc = "done"
         THEN [s EXCEPT !.microtasks =
                  Append(@, [k |-> "dispatch", origin |-> origin,
                             forBatch |-> s.assemblyBatch])]
         ELSE [s EXCEPT !.waiters =
                  Append(@, [on |-> s.batchInFlight, origin |-> origin,
                             forBatch |-> s.assemblyBatch])]
    ELSE dispatchBatchBody(s, origin)

\* variant: the incomplete batches are taken from the end of the list
initLoopTakesLast(s) ==
    IF Len(s.incompleteBatches) = 0
    THEN [s EXCEPT !.initPc = "done"]
    ELSE dispatchBatch([s EXCEPT
             !.assemblyBatch = s.incompleteBatches[Len(s.incompleteBatches)],
             !.incompleteBatches = SubSeq(@, 1, Len(@) - 1)], "init")

\* One pass of the while loop of init() from its condition to the await of
\* dispatchBatch, or the return of init().
initLoop(s) ==
    IF Len(s.incompleteBatches) = 0
    THEN [s EXCEPT !.initPc = "done"]
    ELSE dispatchBatch([s EXCEPT !.assemblyBatch = Head(s.incompleteBatches),
                                 !.incompleteBatches = Tail(@)], "init")

setTimeout(s, delay) ==
    [s EXCEPT !.timers = Append(@, [st |-> "armed", left |-> Max(delay, 0)]),
              !.dispatchTimeout = Len(s.timers) + 1]

\* variant: the old timer is cleared and no new one is set
assemblerArmTimerOnlyClears(s1, batch) ==
    With(clearTimeout(s1, s1.dispatchTimeout), LAMBDA s2 :
        assemblerLoop(settle(s2, s2.chosen, "resolved", batch)))

\* variant: the timer is set and the loop goes round without resolving the
\* chosen tasks
assemblerArmTimerNoResolve(s1, batch) ==
    With(clearTimeout(s1, s1.dispatchTimeout), LAMBDA s2 :
    With(setTimeout(s2, Min(batchTimeoutArrivallMS,
                            batchTimeoutOverallMS - s2.batches[batch].age)), LAMBDA s3 :
        assemblerLoop(s3)))

\* assembler(): set/reset the timer to dispatch the batch, then resolve the
\* chosen tasks and go round the loop
assemblerArmTimer(s1, batch) ==
    With(clearTimeout(s1, s1.dispatchTimeout), LAMBDA s2 :
    With(setTimeout(s2, Min(batchTimeoutArrivallMS,
                            batchTimeoutOverallMS - s2.batches[batch].age)), LAMBDA s3 :
        assemblerLoop(settle(s3, s3.chosen, "resolved", batch))))

\* variant: the assembler calls dispatchBatch for a full batch without awaiting it
assemblerPersistedNoAwait(s) ==
    With([s EXCEPT !.persisted[s.asmBatch] = s.batches[s.asmBatch].records], LAMBDA s1 :
        IF Len(s1.batches[s1.asmBatch].records) >= batchMaxRecords
        THEN With(dispatchBatch(s1, "timer"), LAMBDA s2 :
                 assemblerLoop(settle(s2, s2.chosen, "resolved", s2.asmBatch)))
        ELSE assemblerArmTimer(s1, s1.asmBatch))

\* variant: the batch is dispatched only when it holds more than batchMaxRecords
assemblerPersistedOffByOne(s) ==
    With([s EXCEPT !.persisted[s.asmBatch] = s.batches[s.asmBatch].records], LAMBDA s1 :
        IF Len(s1.batches[s1.asmBatch].records) > batchMaxRecords
        THEN dispatchBatch([s1 EXCEPT !.asmPc = "dispatch"], "assembler")
        ELSE assemblerArmTimer(s1, s1.asmBatch))

\* variant: every persisted batch is dispatched, so the assembler waits for
\* the batch in flight before it resolves the chosen tasks
assemblerPersistedAlwaysDispatch(s) ==
    With([s EXCEPT !.persisted[s.asmBatch] = s.batches[s.asmBatch].records], LAMBDA s1 :
        dispatchBatch([s1 EXCEPT !.asmPc = "dispatch"], "assembler"))

\* assembler(): the write of upsertBatch succeeded
assemblerPersisted(s) ==
    With([s EXCEPT !.persisted[s.asmBatch] = s.batches[s.asmBatch].records], LAMBDA s1 :
        IF Len(s1.batches[s1.asmBatch].records) >= batchMaxRecords
        THEN dispatchBatch([s1 EXCEPT !.asmPc = "dispatch"], "assembler")
        ELSE assemblerArmTimer(s1, s1.asmBatch))

\* variant: the callers get the id of the batch in the slot after the dispatch
assemblerDispatchedCurrentSlot(s) ==
    assemblerLoop(settle(s, s.chosen, "resolved", s.assemblyBatch))

\* variant: after the dispatch the assembler resolves the chosen tasks and
\* returns without testing the queue again
assemblerDispatchedExits(s) ==
    [settle(s, s.chosen, "resolved", s.asmBatch)
        EXCEPT !.assembling = FALSE, !.asmPc = "idle", !.chosen = <<>>, !.asmBatch = 0]

\* assembler(): dispatchBatch returned
assemblerDispatched(s) ==
    assemblerLoop(settle(s, s.chosen, "resolved", s.asmBatch))

\* variant: the catch block resolves the chosen tasks
assemblerCatchResolves(s) ==
    assemblerLoop(settle(s, s.chosen, "resolved", s.asmBatch))

\* variant: the catch block rejects the waiting tasks as well as the chosen ones
assemblerCatchRejectsQueue(s) ==
    assemblerLoop(settle([s EXCEPT !.assemblyList = <<>>],
                         s.chosen \o s.assemblyList, "failed", 0))

\* assembler(): the catch block
assemblerCatch(s) ==
    assemblerLoop(settle(s, s.chosen, "failed", 0))

---------------------------------------------------------------------------
\* The processor has been constructed; the batches of an earlier run that the
\* store holds as incomplete are about to be handed to init().  Such a batch
\* was sealed by a timer with one record; the records of the earlier run are
\* numbered below zero.
Constructed(n, max) ==
    /\ batchMaxRecords = max
    /\ initPc = "ready"
    /\ incompleteBatches = [b \in 1..n |-> b]
    /\ batches = [b \in 1..n |->
                      [records |-> <<0 - b>>, age |-> batchTimeoutOverallMS,
                       sinceRecord |-> batchTimeoutArrivallMS,
                       completedAge |-> 0 - 1,
                       pc |-> "none", attempt |-> 0, sleep |-> 0, starts |-> 0,
                       callbacks |-> 0, cbFails |-> 0,
                       upserts |-> 0, upFails |-> 0]]
    /\ persisted = [b \in 1..n |-> <<0 - b>>]
    /\ assemblyList = <<>>
    /\ assembling = FALSE
    /\ assemblyBatch = 0
    /\ dispatchTimeout = 0
    /\ batchInFlight = 0
    /\ timers = <<>>
    /\ waiters = <<>>
    /\ microtasks = <<>>
    /\ asmPc = "idle"
    /\ chosen = <<>>
    /\ asmBatch = 0
    /\ task = [r \in Records |-> [st |-> "none", batchID |-> 0]]
    /\ nextRec = 0
    /\ completeCalls = 0
    /\ burst = TRUE
    /\ lastEvent = [ev |-> "constructed", examined |-> FALSE]

\* the token connector's event loop has not been started
fftokensIdle ==
    /\ loopPc = "none"
    /\ returnedAt = 0
    /\ ctxDone = FALSE
    /\ received = <<>>
    /\ wire = <<>>

\* no dispatcher has been called
dispatcherIdle ==
    /\ dispatcherPc = [at |-> "none", node |-> 0, data |-> 0]
    /\ dispatcherArgs = [batch |-> [author |-> "", tx |-> "", data |-> <<>>], nodes |-> <<>>]
    /\ dispatcherCalls = <<>>
    /\ dispatcherErr = "nil"
    /\ dispatcherRuns = 0

\* the request of a call that has not been made
NoRequest ==
    [type |-> "", tradeID |-> "", assetInstanceID |-> "",
     requester |-> [address |-> "", assetTrailInstanceID |-> ""]]

\* no asset trade request has arrived
tradeIdle ==
    /\ tradePc = "none"
    /\ tradeResponse = [tradeID |-> "", rejection |-> "", content |-> "", filename |-> ""]
    /\ tradeLocals = [headers |-> [from |-> ""], request |-> NoRequest, contentSchemaHash |-> ""]
    /\ authorization = [timeout |-> FALSE, listener |-> FALSE]
    /\ dispatched = <<>>

Init ==
    /\ \E n \in 0..MaxIncomplete : Constructed(n, BATCH_MAX_RECORDS)
    /\ fftokensIdle
    /\ dispatcherIdle
    /\ tradeIdle

\* the owner of the processor calls init(incompleteBatches)
InitCall ==
    /\ initPc = "ready"
    /\ \E s \in {[Cur EXCEPT !.initPc = "running"]} : Becomes(initLoop(s), "init")
    /\ UNCHANGED <<nextRec, burst>>

\* a caller calls add(record); startup is blocked until init() has returned
Add ==
    /\ initPc = "done"
    /\ microtasks = <<>>
    /\ nextRec < MaxRecords
    /\ nextRec' = nextRec + 1
    /\ burst' = (nextRec = 0 \/ (burst /\ lastEvent.ev = "add"))
    /\ \E s \in {Cur} : Becomes(add(s, nextRec + 1), "add")

\* the upsertBatch awaited by the assembler returns
AssemblerUpsertReturns ==
    /\ microtasks = <<>>
    /\ asmPc = "upsert"
    /\ \E s \in {Cur} :
          \/ Becomes(assemblerPersisted(s), "assemblerUpsertOk")
          \/ Becomes(assemblerCatch(s), "assemblerUpsertFailed")
    /\ UNCHANGED <<nextRec, burst>>

\* the dispatch timer fires
TimerFires ==
    /\ microtasks = <<>>
    /\ \E h \in 1..Len(timers) :
          /\ timers[h].st = "armed"
          /\ timers[h].left = 0
          /\ \E s \in {[Cur EXCEPT !.timers[h].st = "fired"]} :
                Becomes(dispatchBatch(s, "timer"), "timer")
    /\ UNCHANGED <<nextRec, burst>>

\* the batch callback awaited by processBatch returns
CallbackReturns ==
    /\ microtasks = <<>>
    /\ \E b \in 1..Len(batches) :
          /\ batches[b].pc = "callback"
          /\ \E s \in {Cur} :
                \/ Becomes(processBatchCallbackReturned(s, b), "callbackOk")
                \/ /\ batches[b].attempt <= MaxFailures
                   /\ Becomes(processBatchCatch(s, b), "callbackFailed")
    /\ UNCHANGED <<nextRec, burst>>

\* the upsertBatch awaited by processBatch returns
ProcessUpsertReturns ==
    /\ microtasks = <<>>
    /\ \E b \in 1..Len(batches) :
          /\ batches[b].pc = "upsert"
          /\ \E s \in {Cur} :
                \/ Becomes(processBatchComplete(s, b), "processUpsertOk")
                \/ /\ batches[b].attempt <= MaxFailures
                   /\ Becomes(processBatchCatch(s, b), "processUpsertFailed")
    /\ UNCHANGED <<nextRec, burst>>

\* the delay awaited by processBatch is over
RetryWakes ==
    /\ microtasks = <<>>
    /\ \E b \in 1..Len(batches) :
          /\ batches[b].pc = "sleep"
          /\ batches[b].sleep = 0
          /\ \E s \in {Cur} : Becomes(processBatchAttempt(s, b), "retry")
    /\ UNCHANGED <<nextRec, burst>>

\* the first ready continuation runs
RunMicrotask ==
    /\ microtasks # <<>>
    /\ \E s \in {[Cur EXCEPT !.microtasks = Tail(@)]} :
          \/ /\ Head(microtasks).k = "dispatch"
             /\ Becomes(dispatchBatchBody(s, Head(microtasks).origin), "dispatchResumed")
          \/ /\ Head(microtasks).k = "assembler"
             /\ Becomes(assemblerDispatched(s), "assemblerResumed")
          \/ /\ Head(microtasks).k = "init"
             /\ Becomes(initLoop(s), "initResumed")
    /\ UNCHANGED <<nextRec, burst>>

\* one millisecond passes
Tick ==
    /\ microtasks = <<>>
    /\ Becomes([Cur EXCEPT
          !.assemblyList = [i \in 1..Len(@) |->
              [@[i] EXCEPT !.age = Min(@ + 1, addTimeoutMS + 1)]],
          !.chosen = [i \in 1..Len(@) |->
              [@[i] EXCEPT !.age = Min(@ + 1, addTimeoutMS + 1)]],
          !.batches = [b \in 1..Len(@) |->
              [@[b] EXCEPT !.age = Min(@ + 1, batchTimeoutOverallMS),
                           !.sinceRecord = Min(@ + 1, batchTimeoutArrivallMS),
                           !.completedAge = IF @ < 0 THEN @ ELSE Min(@ + 1, 1),
                           !.sleep = Max(@ - 1, 0)]],
          !.timers = [h \in 1..Len(@) |->
              [@[h] EXCEPT !.left = Max(@ - 1, 0)]]], "tick")
    /\ UNCHANGED <<nextRec, burst>>

Next ==
    \/ InitCall
    \/ Add
    \/ AssemblerUpsertReturns
    \/ TimerFires
    \/ CallbackReturns
    \/ ProcessUpsertReturns
    \/ RetryWakes
    \/ RunMicrotask
    \/ Tick

Spec == Init /\ [][Next]_vars

\* The event loop keeps running: while a continuation, a timer, a pending
\* store write or callback, or the clock can make a step, one is made.  The
\* guards on the failing branches (MaxFailures) make the batch callback and
\* the store succeed in the end.
LiveSpec == Spec /\ WF_vars(Next)

\* A processor constructed with a config of its own, in which a batch takes
\* one record more: a batch can then be written more than once before it is
\* full.
LargeBatchInit ==
    /\ \E n \in 0..MaxIncomplete : Constructed(n, BATCH_MAX_RECORDS + 1)
    /\ fftokensIdle
    /\ dispatcherIdle
    /\ tradeIdle

LargeBatchSpec == LargeBatchInit /\ [][Next]_vars

---------------------------------------------------------------------------
\* Vocabulary of the properties

Batches == 1..Len(batches)

\* the batches of an earlier run, handed to init()
Recovered == {b \in Batches : \E i \in 1..Len(batches[b].records) : batches[b].records[i] < 0}

\* the positions of record r in the record list of batch b
Positions(r, b) == {i \in 1..Len(batches[b].records) : batches[b].records[i] = r}

\* batch b is inside processBatch
Processing(b) == batches[b].pc \in {"callback", "upsert", "sleep"}

Resolved(r) == task[r].st = "resolved"
Rejected(r) == task[r].st \in {"timeout", "failed"}

RECURSIVE Pow(_, _)
Pow(x, n) == IF n = 0 THEN 1 ELSE x * Pow(x, n - 1)

\* the age of the queued task of record r
QueuedAge(r) ==
    LET i == CHOOSE j \in 1..Len(assemblyList) : assemblyList[j].rec = r
    IN  assemblyList[i].age

Queued(r) == \E j \in 1..Len(assemblyList) : assemblyList[j].rec = r

---------------------------------------------------------------------------
\* C1: whenever an add call has resolved with batchID b, the store holds a
\* successful upsertBatch of batch b whose record list contains the record;
\* add never resolves for a record that is only in memory.
C1_ResolvedIsPersisted ==
    \A r \in Records :
        Resolved(r) =>
            /\ task[r].batchID \in 1..Len(persisted)
            /\ \E i \in 1..Len(persisted[task[r].batchID]) :
                   persisted[task[r].batchID][i] = r

\* a record resolved into a batch that an earlier iteration failed to persist
C1_Witness ==
    \E r \in Records, q \in Records :
        /\ Resolved(r) /\ task[q].st = "failed"
        /\ Positions(q, task[r].batchID) # {}
        /\ \E i \in 1..Len(persisted[task[r].batchID]) :
               persisted[task[r].batchID][i] = r

\* C2: every record whose add resolved is in exactly one batch, exactly once
\* in that batch's record list, and the batchID returned is that batch's id.
C2_ExactlyOneBatch ==
    \A r \in Records :
        Resolved(r) =>
            /\ task[r].batchID \in Batches
            /\ \A b \in Batches :
                   Cardinality(Positions(r, b)) = (IF b = task[r].batchID THEN 1 ELSE 0)

\* all records resolved, over several batches, after a persistence failure,
\* a timer firing and a dispatch
C2_Witness ==
    /\ \E r \in Records : task[r].st = "failed"
    /\ \E r \in Records, q \in Records :
          Resolved(r) /\ Resolved(q) /\ task[r].batchID # task[q].batchID
    /\ \E h \in 1..Len(timers) : timers[h].st = "fired"
    /\ \E b \in Batches : batches[b].pc = "done"

\* C3: records are assigned to batches in the order of their add calls
\* (record ids are the order of the add calls, batchIDs the order in which
\* the batches were created).
C3_SubmissionOrder ==
    \A r1 \in Records, r2 \in Records :
        (r1 < r2 /\ Resolved(r1) /\ Resolved(r2)) =>
            \/ task[r1].batchID < task[r2].batchID
            \/ /\ task[r1].batchID = task[r2].batchID
               /\ \A i \in Positions(r1, task[r1].batchID),
                     j \in Positions(r2, task[r2].batchID) : i < j

\* two records resolved in order around a stale task evicted between them
C3_Witness ==
    \E r1 \in Records, r2 \in Records, r3 \in Records :
        /\ r1 < r2 /\ r2 < r3
        /\ Resolved(r1) /\ task[r2].st = "timeout" /\ Resolved(r3)

\* C4: at most one batch is inside processBatch at any time.
C4_OneBatchInProcess ==
    Cardinality({b \in Batches : Processing(b)}) <= 1

\* a second batch is being processed after a timer-triggered and an
\* assembler-triggered dispatchBatch both waited for the first one
C4_Witness ==
    /\ \E b \in Batches : b >= 2 /\ Processing(b) /\ batches[b - 1].pc = "done"
    /\ lastEvent.ev = "dispatchResumed"
    /\ microtasks # <<>>

\* C5: while batch N is being processed no record is in a batch N+2, and
\* the add calls whose records filled batch N+1 to batchMaxRecords resolve
\* only once batch N is no longer being processed.
C5_OneBatchAhead ==
    /\ [](\A n \in Batches : Processing(n) => Len(batches) <= n + 1)
    /\ [][\A r \in Records :
            (~Resolved(r) /\ Resolved(r)' /\
             Len(batches[task'[r].batchID].records) >= batchMaxRecords)
            => \A n \in 1..(task'[r].batchID - 1) : ~Processing(n)']_vars

\* batch N is being processed, batch N+1 is full and persisted, and the
\* adds that filled it are still waiting
C5_Witness ==
    \E n \in Batches :
        /\ Processing(n)
        /\ Len(batches) = n + 1
        /\ Len(persisted[n + 1]) = batchMaxRecords
        /\ asmPc = "dispatch"
        /\ \E r \in Records : task[r].st = "chosen"

\* C6: a batch is handed to processBatch at most once, and a resumed
\* dispatchBatch call that was made for batch b either finds b in the slot
\* and starts processBatch for it, or finds the slot empty, b already
\* handed over by the other call, and starts nothing.
C6_DispatchOnce ==
    /\ [](\A b \in Batches : batches[b].starts <= 1)
    /\ [][(microtasks # <<>> /\ Head(microtasks).k = "dispatch"
           /\ Head(microtasks).forBatch # 0 /\ microtasks' = Tail(microtasks)
           /\ lastEvent'.ev = "dispatchResumed")
          => LET b == Head(microtasks).forBatch
             IN  \/ /\ assemblyBatch = b
                    /\ batches[b].starts = 0
                    /\ batches'[b].starts = 1
                    /\ \A c \in Batches \ {b} : batches'[c] = batches[c]
                 \/ /\ assemblyBatch = 0
                    /\ batches[b].starts = 1
                    /\ batches' = batches
                    /\ batchInFlight' = batchInFlight]_vars

\* the second of two concurrent dispatchBatch calls for the same batch (one
\* from the timer, one from the assembler) is about to resume after the
\* first has handed the batch to processBatch
C6_Witness ==
    /\ Len(microtasks) >= 1
    /\ Head(microtasks).k = "dispatch"
    /\ Head(microtasks).forBatch # 0
    /\ lastEvent.ev = "dispatchResumed"
    /\ batches[Head(microtasks).forBatch].starts = 1
    /\ assemblyBatch = 0

\* C7: processBatch never gives up: after a failed attempt it sleeps and then
\* invokes the callback again, a batch handed to processBatch is eventually
\* completed once the callback and the store succeed, and a failed dispatch
\* attempt changes the outcome of no add call.
C7_NeverGivesUp ==
    /\ \A b \in 1..MaxBatches :
          (b \in Batches /\ Processing(b)) ~> (b \in Batches /\ batches[b].pc = "done")
    /\ [][\A b \in Batches :
            batches[b].pc = "sleep" => batches'[b].pc \in {"sleep", "callback"}]_vars
    /\ [][lastEvent'.ev \in {"callbackFailed", "processUpsertFailed"} => task' = task]_vars

\* the callback succeeded on the attempt after MaxFailures failed attempts,
\* and the add calls of the batch's records are resolved
C7_Witness ==
    \E b \in Batches \ Recovered :
        /\ batches[b].pc = "upsert"
        /\ batches[b].attempt = MaxFailures + 1
        /\ \A i \in 1..Len(batches[b].records) : Resolved(batches[b].records[i])

\* C8: an add call is rejected only with a timeout, its task having been in
\* the queue for more than addTimeoutMS, or with the error of the failed
\* upsertBatch of the assembler iteration that took its record.
C8_RejectReasons ==
    [][\A r \in Records :
         (~Rejected(r) /\ Rejected(r)') =>
            \/ /\ task'[r].st = "timeout"
               /\ Queued(r)
               /\ QueuedAge(r) > addTimeoutMS
            \/ /\ task'[r].st = "failed"
               /\ task[r].st = "chosen"
               /\ asmPc = "upsert"
               /\ \E i \in 1..Len(chosen) : chosen[i].rec = r
               /\ lastEvent'.ev = "assemblerUpsertFailed"]_vars

\* one add rejected by timeout, another by a failed upsertBatch, a third
\* resolved although an attempt to dispatch its batch failed
C8_Witness ==
    /\ \E r \in Records : task[r].st = "timeout"
    /\ \E r \in Records : task[r].st = "failed"
    /\ \E r \in Records :
          /\ Resolved(r)
          /\ batches[task[r].batchID].pc = "sleep"

\* C9: after every add call and every top of the assembler loop no task
\* older than addTimeoutMS is left in the queue, the tasks in the queue are
\* exactly the pending ones in the order of their add calls, and the record
\* of a task rejected with a timeout is in no batch.
C9_StaleEvicted ==
    /\ lastEvent.ev \in {"add", "assemblerUpsertFailed", "assemblerResumed"}
          => lastEvent.examined
    /\ lastEvent.examined =>
          \A i \in 1..Len(assemblyList) : assemblyList[i].age <= addTimeoutMS
    /\ \A r \in Records : task[r].st = "queued" <=> Queued(r)
    /\ \A i \in 1..Len(assemblyList), j \in 1..Len(assemblyList) :
          i < j => assemblyList[i].rec < assemblyList[j].rec
    /\ \A r \in Records :
          task[r].st = "timeout" => \A b \in Batches : Positions(r, b) = {}

\* an add call has just evicted a stale task and left a younger one queued
\* behind the running assembler
C9_Witness ==
    /\ lastEvent.ev = "add"
    /\ asmPc # "idle"
    /\ Len(assemblyList) >= 1
    /\ \E r \in Records : task[r].st = "timeout"

\* C10 as stated: no task is in the assembly queue for more than addTimeoutMS.
C10_Original ==
    \A i \in 1..Len(assemblyList) : assemblyList[i].age <= addTimeoutMS

\* C10 as amended: no task that has been in the queue for more than
\* addTimeoutMS is taken into a batch; such a task leaves the queue only by
\* being rejected with a timeout (at the next add call or loop iteration).
C10_StaleNeverTaken ==
    [][\A r \in Records :
         (Queued(r) /\ ~Queued(r)') =>
            IF QueuedAge(r) > addTimeoutMS
            THEN task'[r].st = "timeout"
            ELSE task'[r].st \in {"chosen", "resolved", "failed"}
                 /\ \E b \in 1..Len(batches') :
                       \E i \in 1..Len(batches'[b].records) : batches'[b].records[i] = r]_vars

\* a task is older than addTimeoutMS and still queued while the assembler
\* waits for the dispatch of a full batch behind a batch in flight
C10_Witness ==
    /\ asmPc = "dispatch"
    /\ waiters # <<>>
    /\ \E i \in 1..Len(assemblyList) : assemblyList[i].age > addTimeoutMS

\* C11: timeout eviction applies only to the tasks still in the queue: a
\* task the assembler has taken into a batch is never rejected with a
\* timeout, however long the upsertBatch it waits for takes (it can only be
\* resolved or rejected with the error of that upsertBatch, and stays so),
\* while a task that has been queued behind it for more than addTimeoutMS is
\* rejected with a timeout by the step that examines the queue.
C11_OnlyQueuedTimeOut ==
    [][\A r \in Records :
         /\ task[r].st = "chosen" => task'[r].st \in {"chosen", "resolved", "failed"}
         /\ task[r].st \in {"resolved", "failed"} => task'[r] = task[r]
         /\ (Queued(r) /\ QueuedAge(r) > addTimeoutMS /\ lastEvent'.examined)
                => task'[r].st = "timeout"]_vars

\* the assembler still waits for upsertBatch, the task it took is older than
\* addTimeoutMS and not rejected, and an add call has just rejected a task
\* queued behind it with a timeout
C11_Witness ==
    /\ lastEvent.ev = "add"
    /\ asmPc = "upsert"
    /\ \E i \in 1..Len(chosen) :
          /\ chosen[i].age > addTimeoutMS
          /\ task[chosen[i].rec].st = "chosen"
          /\ \E r \in Records : r > chosen[i].rec /\ task[r].st = "timeout"

\* C12: every batch, whether it is in the assembly slot, being processed or
\* written to the store by upsertBatch, has at most batchMaxRecords records.
C12_AtMostMaxRecords ==
    \A b \in Batches :
        /\ Len(batches[b].records) <= batchMaxRecords
        /\ Len(persisted[b]) <= batchMaxRecords

\* the assembler has filled the batch up to batchMaxRecords and had to leave
\* a task in the queue
C12_Witness ==
    /\ asmPc = "upsert"
    /\ Len(batches[asmBatch].records) = batchMaxRecords
    /\ Len(chosen) >= 1
    /\ assemblyList # <<>>

\* C13: time seal: a batch in the assembly slot that holds an accepted
\* record and has fewer than batchMaxRecords records is eventually handed to
\* processBatch, in every run of the event loop and so also in the runs
\* where no further add call is made (the batches in flight complete, as
\* the callback and the store succeed in the end).
C13_TimeSeal ==
    \A b \in 1..MaxBatches :
        (/\ b \in Batches
         /\ assemblyBatch = b
         /\ Len(batches[b].records) < batchMaxRecords
         /\ \E r \in Records : Resolved(r) /\ task[r].batchID = b)
        ~> (b \in Batches /\ batches[b].starts >= 1)

\* the dispatch timer has fired and handed a batch that is not full, with
\* an accepted record, to processBatch
C13_Witness ==
    /\ lastEvent.ev = "timer"
    /\ \E b \in Batches :
          /\ batchInFlight = b
          /\ batches[b].pc = "callback"
          /\ Len(batches[b].records) < batchMaxRecords
          /\ \E r \in Records : Resolved(r) /\ task[r].batchID = b

\* C14: capacity seal.  When the records are submitted back to back and no
\* add fails or times out, every batch but the last one created holds
\* exactly batchMaxRecords records, and once all the adds have resolved the
\* last one holds the rest; a batch that has batchMaxRecords records when its
\* upsertBatch succeeds is passed to dispatchBatch by that same assembler
\* iteration; and processBatch is started for the batches in the order the
\* batches were created.
C14_CapacitySeal ==
    /\ []((burst /\ \A r \in Records : ~Rejected(r)) =>
            /\ \A b \in Batches \ Recovered :
                   b < Len(batches) => Len(batches[b].records) = batchMaxRecords
            /\ (nextRec >= 1 /\ \A r \in 1..nextRec : Resolved(r)) =>
                   Len(batches[Len(batches)].records)
                       = nextRec - batchMaxRecords
                                     * (Len(batches) - Cardinality(Recovered) - 1))
    /\ [][(lastEvent'.ev = "assemblerUpsertOk"
            /\ Len(batches[asmBatch].records) >= batchMaxRecords)
           => /\ asmPc' = "dispatch"
              /\ \/ batches'[asmBatch].starts >= 1
                 \/ \E i \in 1..Len(waiters') :
                        waiters'[i].origin = "assembler" /\ waiters'[i].forBatch = asmBatch
                 \/ \E i \in 1..Len(microtasks') :
                        /\ microtasks'[i].k = "dispatch"
                        /\ microtasks'[i].origin = "assembler"
                        /\ microtasks'[i].forBatch = asmBatch]_vars
    /\ [][\A b \in Batches :
            batches'[b].starts > batches[b].starts
               => \A c \in 1..(b - 1) : batches[c].starts >= 1]_vars

\* MaxRecords records were submitted back to back and all their adds have
\* resolved, into more than one batch, the first of which was dispatched
\* by the assembler
C14_Witness ==
    /\ burst
    /\ nextRec = MaxRecords
    /\ \A r \in Records : Resolved(r)
    /\ Recovered = {}
    /\ Len(batches) >= 2
    /\ Len(batches[1].records) = batchMaxRecords
    /\ batches[1].starts = 1
    /\ \A h \in 1..Len(timers) : timers[h].st # "fired"

\* C15: assembly of batch N+1 is pipelined with the dispatch of batch N: the
\* step in which the upsertBatch of a batch that is not full succeeds
\* resolves the adds of the records it took with the id of that batch,
\* whether or not an earlier batch is being processed (waiting for its
\* callback, its store write or its retry sleep), and leaves the processing
\* of that earlier batch as it is.
C15_Pipelined ==
    [][(lastEvent'.ev = "assemblerUpsertOk"
        /\ Len(batches[asmBatch].records) < batchMaxRecords)
       => /\ \A i \in 1..Len(chosen) :
                task'[chosen[i].rec] = [st |-> "resolved", batchID |-> asmBatch]
          /\ \A n \in Batches : Processing(n) => batches'[n] = batches[n]]_vars

\* batch N is in its retry sleep and the add of a record of batch N+1, which
\* is not full and still in the slot, has just resolved
C15_Witness ==
    /\ lastEvent.ev = "assemblerUpsertOk"
    /\ \E n \in Batches :
          /\ batches[n].pc = "sleep"
          /\ assemblyBatch = n + 1
          /\ n + 1 \notin Recovered
          /\ Len(batches[n + 1].records) = 1
          /\ Resolved(batches[n + 1].records[1])

C17_IdleOnlyWhenNothingQueued ==
    [][completeCalls' > completeCalls =>
          /\ lastEvent'.ev = "processUpsertOk"
          /\ assemblyBatch = 0
          /\ assemblyList = <<>>
          /\ ~assembling]_vars

\* C18: the delay slept after the failed attempt number a of processBatch is
\* min(retryInitialDelayMS * retryMultiplier^(a-1), retryMaxDelayMS): it
\* never exceeds retryMaxDelayMS and is not smaller than the delay after
\* attempt a-1.
C18_RetryDelay ==
    [][\A b \in Batches :
         (batches[b].pc \in {"callback", "upsert"} /\ batches'[b].pc = "sleep") =>
            LET a == batches[b].attempt
            IN  /\ a >= 1
                /\ batches'[b].sleep =
                      Min(retryInitialDelayMS * Pow(retryMultiplier, a - 1), retryMaxDelayMS)
                /\ batches'[b].sleep <= retryMaxDelayMS
                /\ a >= 2 => batches'[b].sleep >=
                      Min(retryInitialDelayMS * Pow(retryMultiplier, a - 2), retryMaxDelayMS)]_vars

\* the second attempt has just failed and the delay is the cap, the
\* uncapped product being larger
C18_Witness ==
    /\ lastEvent.ev \in {"callbackFailed", "processUpsertFailed"}
    /\ retryInitialDelayMS * retryMultiplier > retryMaxDelayMS
    /\ \E b \in Batches :
          /\ batches[b].pc = "sleep"
          /\ batches[b].attempt = 2
          /\ batches[b].sleep = retryMaxDelayMS

\* C19: processBatch writes the batch to the store only after the callback
\* of the same attempt has succeeded.  When the callback has failed k times,
\* then succeeds, and the store accepts the write (no write of this
\* processBatch call was refused), the callback has been invoked exactly
\* k+1 times and upsertBatch called exactly once; after that neither is
\* ever invoked again for the batch.
C19_PersistAfterCallback ==
    /\ [][\A b \in Batches :
            batches'[b].upserts > batches[b].upserts =>
               /\ lastEvent'.ev = "callbackOk"
               /\ batches[b].pc = "callback"
               /\ batches'[b].upserts = batches[b].upserts + 1
               /\ batches'[b].callbacks = batches[b].callbacks]_vars
    /\ [][\A b \in Batches :
            (batches[b].pc = "upsert" /\ batches'[b].pc = "done"
             /\ batches[b].upFails = 0) =>
               /\ batches[b].callbacks = batches[b].cbFails + 1
               /\ batches[b].upserts = 1
               /\ persisted'[b] = batches[b].records]_vars
    /\ [][\A b \in Batches :
            batches[b].pc = "done" =>
               /\ batches'[b].pc = "done"
               /\ batches'[b].callbacks = batches[b].callbacks
               /\ batches'[b].upserts = batches[b].upserts
               /\ batches'[b].starts = batches[b].starts]_vars

\* the callback failed MaxFailures times, succeeded on the next attempt, and
\* the one write of the batch is pending
C19_Witness ==
    \E b \in Batches :
        /\ batches[b].pc = "upsert"
        /\ batches[b].cbFails = MaxFailures
        /\ batches[b].callbacks = MaxFailures + 1
        /\ batches[b].upserts = 1
        /\ batches[b].upFails = 0

\* C20: the record list of a batch that has been taken out of the assembly
\* slot for dispatch never changes again; completed is stamped with the
\* current time at the start of every attempt of processBatch, so whenever
\* it is set it is not earlier than created.
C20_SealedBatchImmutable ==
    /\ [][\A b \in Batches :
            batches[b].starts >= 1 => batches'[b].records = batches[b].records]_vars
    /\ [][\A b \in Batches :
            batches'[b].attempt > batches[b].attempt =>
               /\ batches'[b].completedAge = 0
               /\ batches'[b].pc = "callback"]_vars
    /\ [](\A b \in Batches :
            /\ batches[b].completedAge >= 0 <=> batches[b].starts >= 1
            /\ batches[b].completedAge <= batches[b].age)

\* a batch sealed by the timer with room left is in its second attempt,
\* completed has just been stamped again, and the record that arrived after
\* the seal is in the next batch
C20_Witness ==
    /\ lastEvent.ev = "retry"
    /\ \E b \in Batches \ Recovered :
          /\ batches[b].pc = "callback"
          /\ batches[b].attempt = 2
          /\ batches[b].completedAge = 0
          /\ batches[b].age > 0
          /\ Len(batches[b].records) < batchMaxRecords
          /\ assemblyBatch = b + 1
          /\ Len(batches[b + 1].records) >= 1

---------------------------------------------------------------------------
(***************************************************************************)
(* Model of the token connector plugin, internal/tokens/fftokens.  Init    *)
(* starts one goroutine running eventLoop; it takes the messages of the    *)
(* websocket one at a time and deals with each of them before it returns   *)
(* to the select, so one step of the model is one pass through the loop.   *)
(* The messages, the return values of the callbacks and of wsconn.Send are *)
(* the inputs.  The batch processor takes no step in this specification.   *)
(***************************************************************************)

\* number of messages the websocket delivers
MaxMessages == 2

messageReceipt == "receipt"
messageTokenPool == "token-pool"

OpStatusSucceeded == "succeeded"
OpStatusFailed == "failed"

\* error values: nil, and some error
Nil == "nil"
Pop == "pop"

\* a key that the JSON object does not have
Absent == "<absent>"
\* the strings that are the text of a uuid
UUIDs == {"9ffc50ff-6bfe-4502-adc7-93aea54cc059"}
NotUUID == "!uuid"

\* fftypes.JSONObject accessors: the zero value when the key is absent
GetString(data, key) == IF data[key] = Absent THEN "" ELSE data[key]
GetBool(data, key) == data[key] = "true"
\* fftypes.ParseUUID
ParseUUID(s) == IF s \in UUIDs THEN [uuid |-> s, err |-> Nil] ELSE [uuid |-> "", err |-> Pop]

NoData ==
    [id |-> Absent, success |-> Absent, message |-> Absent, type |-> Absent, poolId |-> Absent,
     trackingId |-> Absent, operator |-> Absent, transactionHash |-> Absent]

ReceiptData ==
    {[NoData EXCEPT !.id = i, !.success = s, !.message = "done"] :
        i \in {Absent, NotUUID} \cup UUIDs, s \in {Absent, "true", "false"}}

TokenPoolRequired == {"type", "poolId", "trackingId", "operator", "transactionHash"}

TokenPoolComplete(trackingID) ==
    [NoData EXCEPT !.type = "fungible", !.poolId = "F1", !.trackingId = trackingID,
                   !.operator = "0x0", !.transactionHash = "0xabc"]

TokenPoolData ==
    {TokenPoolComplete(t) : t \in {NotUUID} \cup UUIDs}
        \cup {[TokenPoolComplete(t) EXCEPT ![f] = Absent] : t \in UUIDs, f \in TokenPoolRequired}

MessageIDs == {"", "1", "2"}

\* what h.wsconn.Receive() can deliver: bytes that are not the JSON of a
\* wsEvent, or the JSON of a wsEvent
RawMessages ==
    {[json |-> FALSE, event |-> "", id |-> "", data |-> NoData]}
        \cup [json : {TRUE}, event : {messageReceipt}, id : MessageIDs, data : ReceiptData]
        \cup [json : {TRUE}, event : {messageTokenPool}, id : MessageIDs, data : TokenPoolData]
        \cup [json : {TRUE}, event : {"token-mint"}, id : MessageIDs, data : {NoData}]

\* json.Unmarshal(msgBytes, &msg)
Unmarshal(msgBytes) ==
    IF msgBytes.json
    THEN [msg |-> [Event |-> msgBytes.event, ID |-> msgBytes.id, Data |-> msgBytes.data], err |-> Nil]
    ELSE [msg |-> [Event |-> "", ID |-> "", Data |-> NoData], err |-> Pop]

\* the goroutine's state as one record
CurLoop == [loopPc |-> loopPc, returnedAt |-> returnedAt, received |-> received, wire |-> wire]

\* a call made on a collaborator while message number n is dealt with
Call(h, call, id, arg, ret) ==
    [h EXCEPT !.wire = Append(@, [call |-> call, n |-> Len(h.received), id |-> id, arg |-> arg, ret |-> ret])]

\* variant: the success flag counts as true unless it is present and false
handleReceiptAbsentSucceeds(h, data, ret) ==
    LET requestID == GetString(data, "id")
        operationID == ParseUUID(requestID)
        replyType == IF data["success"] = "false" THEN OpStatusFailed ELSE OpStatusSucceeded
    IN  IF requestID = "" THEN [h |-> h, err |-> Nil]
        ELSE IF operationID.err # Nil THEN [h |-> h, err |-> Nil]
        ELSE [h |-> Call(h, "TokensOpUpdate", operationID.uuid, replyType, ret), err |-> ret]

handleReceipt(h, data, ret) ==
    LET requestID == GetString(data, "id")
        success == GetBool(data, "success")
        operationID == ParseUUID(requestID)
        replyType == IF ~success THEN OpStatusFailed ELSE OpStatusSucceeded
    IN  IF requestID = "" THEN [h |-> h, err |-> Nil]
        ELSE IF operationID.err # Nil THEN [h |-> h, err |-> Nil]
        ELSE [h |-> Call(h, "TokensOpUpdate", operationID.uuid, replyType, ret), err |-> ret]

\* variant: the event is handed to the callback whatever fields it has
handleTokenPoolCreateUnvalidated(h, data, ret) ==
    [h |-> Call(h, "TokenPoolCreated", ParseUUID(GetString(data, "trackingId")).uuid,
                GetString(data, "type"), ret),
     err |-> ret]

handleTokenPoolCreate(h, data, ret) ==
    LET tokenType == GetString(data, "type")
        protocolID == GetString(data, "poolId")
        trackingID == GetString(data, "trackingId")
        operatorAddress == GetString(data, "operator")
        txHash == GetString(data, "transactionHash")
        txID == ParseUUID(trackingID)
    IN  IF \/ tokenType = ""
           \/ protocolID = ""
           \/ trackingID = ""
           \/ operatorAddress = ""
           \/ txHash = ""
        THEN [h |-> h, err |-> Nil]
        ELSE IF txID.err # Nil THEN [h |-> h, err |-> Nil]
        ELSE [h |-> Call(h, "TokenPoolCreated", txID.uuid, tokenType, ret), err |-> ret]

\* a return statement of eventLoop, with the deferred h.wsconn.Close()
eventLoopReturn(h, line) ==
    [Call(h, "Close", "", "", Nil) EXCEPT !.loopPc = "returned", !.returnedAt = line]

\* variant: bytes that cannot be decoded end the loop
eventLoopStopsOnBadJSON(h0, msgBytes, cbRet, sendRet) ==
    LET h == [h0 EXCEPT !.received = Append(@, msgBytes)]
        decoded == Unmarshal(msgBytes)
        msg == decoded.msg
        handled ==
            CASE msg.Event = messageReceipt -> handleReceipt(h, msg.Data, cbRet)
              [] msg.Event = messageTokenPool -> handleTokenPoolCreate(h, msg.Data, cbRet)
              [] OTHER -> [h |-> h, err |-> Nil]
        acked ==
            IF handled.err = Nil /\ msg.Event # messageReceipt /\ msg.ID # ""
            THEN [h |-> Call(handled.h, "Send", msg.ID, "ack", sendRet), err |-> sendRet]
            ELSE handled
    IN  IF decoded.err # Nil THEN eventLoopReturn(h, 193)
        ELSE IF acked.err # Nil THEN eventLoopReturn(acked.h, 193)
        ELSE acked.h

\* variant: every event handled without error and carrying an id is acked
eventLoopAcksReceipts(h0, msgBytes, cbRet, sendRet) ==
    LET h == [h0 EXCEPT !.received = Append(@, msgBytes)]
        decoded == Unmarshal(msgBytes)
        msg == decoded.msg
        handled ==
            CASE msg.Event = messageReceipt -> handleReceipt(h, msg.Data, cbRet)
              [] msg.Event = messageTokenPool -> handleTokenPoolCreate(h, msg.Data, cbRet)
              [] OTHER -> [h |-> h, err |-> Nil]
        acked ==
            IF handled.err = Nil /\ msg.ID # ""
            THEN [h |-> Call(handled.h, "Send", msg.ID, "ack", sendRet), err |-> sendRet]
            ELSE handled
    IN  IF decoded.err # Nil THEN h
        ELSE IF acked.err # Nil THEN eventLoopReturn(acked.h, 193)
        ELSE acked.h

\* variant: the ack is sent as soon as the message is decoded, before it is handled
eventLoopAcksFirst(h0, msgBytes, cbRet, sendRet) ==
    LET h == [h0 EXCEPT !.received = Append(@, msgBytes)]
        decoded == Unmarshal(msgBytes)
        msg == decoded.msg
        acked ==
            IF msg.Event # messageReceipt /\ msg.ID # ""
            THEN [h |-> Call(h, "Send", msg.ID, "ack", sendRet), err |-> sendRet]
            ELSE [h |-> h, err |-> Nil]
        handled ==
            CASE acked.err # Nil -> acked
              [] msg.Event = messageReceipt -> handleReceipt(acked.h, msg.Data, cbRet)
              [] msg.Event = messageTokenPool -> handleTokenPoolCreate(acked.h, msg.Data, cbRet)
              [] OTHER -> acked
    IN  IF decoded.err # Nil THEN h
        ELSE IF handled.err # Nil THEN eventLoopReturn(handled.h, 193)
        ELSE handled.h

\* one pass through the loop, for a message that the channel delivered
eventLoop(h0, msgBytes, cbRet, sendRet) ==
    LET h == [h0 EXCEPT !.received = Append(@, msgBytes)]
        decoded == Unmarshal(msgBytes)
        msg == decoded.msg
        handled ==
            CASE msg.Event = messageReceipt -> handleReceipt(h, msg.Data, cbRet)
              [] msg.Event = messageTokenPool -> handleTokenPoolCreate(h, msg.Data, cbRet)
              [] OTHER -> [h |-> h, err |-> Nil]
        acked ==
            IF handled.err = Nil /\ msg.Event # messageReceipt /\ msg.ID # ""
            THEN [h |-> Call(handled.h, "Send", msg.ID, "ack", sendRet), err |-> sendRet]
            ELSE handled
    IN  IF decoded.err # Nil THEN h
        ELSE IF acked.err # Nil THEN eventLoopReturn(acked.h, 193)
        ELSE acked.h

LoopBecomes(h) ==
    /\ loopPc' = h.loopPc
    /\ returnedAt' = h.returnedAt
    /\ received' = h.received
    /\ wire' = h.wire

processorVars ==
    <<batchMaxRecords, initPc, incompleteBatches, assemblyList, assembling, assemblyBatch, dispatchTimeout,
      batchInFlight, batches, timers, waiters, microtasks, asmPc, chosen, asmBatch, task,
      persisted, nextRec, completeCalls, burst, lastEvent>>

\* FFTokens.Init has started the goroutine
fftokensInit ==
    /\ Constructed(0, BATCH_MAX_RECORDS)
    /\ dispatcherIdle
    /\ tradeIdle
    /\ loopPc = "select"
    /\ returnedAt = 0
    /\ ctxDone = FALSE
    /\ received = <<>>
    /\ wire = <<>>

\* the select takes a message from h.wsconn.Receive()
Receive ==
    /\ loopPc = "select"
    /\ Len(received) < MaxMessages
    /\ \E msgBytes \in RawMessages, cbRet \in {Nil, Pop}, sendRet \in {Nil, Pop} :
          LoopBecomes(eventLoop(CurLoop, msgBytes, cbRet, sendRet))
    /\ UNCHANGED <<ctxDone, processorVars, dispatcherVars, tradeVars>>

\* the select finds the channel of h.wsconn.Receive() closed
ReceiveClosed ==
    /\ loopPc = "select"
    /\ LoopBecomes(eventLoopReturn(CurLoop, 161))
    /\ UNCHANGED <<ctxDone, processorVars, dispatcherVars, tradeVars>>

\* the owner cancels the context
Cancel ==
    /\ loopPc = "select"
    /\ ~ctxDone
    /\ ctxDone' = TRUE
    /\ UNCHANGED <<loopPc, returnedAt, received, wire, processorVars, dispatcherVars, tradeVars>>

\* the select takes the case of ctx.Done()
Done ==
    /\ loopPc = "select"
    /\ ctxDone
    /\ LoopBecomes(eventLoopReturn(CurLoop, 156))
    /\ UNCHANGED <<ctxDone, processorVars, dispatcherVars, tradeVars>>

fftokensNext ==
    \/ Receive
    \/ ReceiveClosed
    \/ Cancel
    \/ Done

fftokensSpec == fftokensInit /\ [][fftokensNext]_vars

---------------------------------------------------------------------------
\* Vocabulary of the properties of the event loop

MessageNumbers == 1..Len(received)

\* the calls of one kind made while message number n was dealt with: after it
\* was taken from the channel and before the next one was
CallsFor(n, call) == {i \in DOMAIN wire : wire[i].n = n /\ wire[i].call = call}

\* the loop ended at line 193 while it dealt with message number n
EndedBy(n) == loopPc = "returned" /\ returnedAt = 193 /\ n = Len(received)

\* the last call made before the deferred Close
LastCall ==
    IF Len(wire) > 1 THEN wire[Len(wire) - 1]
    ELSE [call |-> "none", n |-> 0, id |-> "", arg |-> "", ret |-> Nil]

\* a token-pool event that lacks one of the fields handleTokenPoolCreate requires
LacksField(m) ==
    /\ m.json
    /\ m.event = messageTokenPool
    /\ \E f \in TokenPoolRequired : m.data[f] = Absent

\* C21 as stated: a token-pool event that lacks the transaction hash, or another
\* required field, is swallowed: TokenPoolCreated is not invoked, no ack is
\* sent for it, and the loop goes on to the next message.
C21_Original ==
    \A n \in MessageNumbers :
        LacksField(received[n]) =>
            /\ CallsFor(n, "TokenPoolCreated") = {}
            /\ CallsFor(n, "Send") = {}
            /\ ~EndedBy(n)

\* C21, amended: a token-pool event that lacks the transaction hash, or another
\* required field, is swallowed: TokenPoolCreated is not invoked; an ack with
\* the message id is sent for it exactly when that id is not empty, and the
\* loop goes on to the next message unless sending that ack fails.
C21_IncompleteTokenPoolSwallowed ==
    \A n \in MessageNumbers :
        LacksField(received[n]) =>
            /\ CallsFor(n, "TokenPoolCreated") = {}
            /\ Cardinality(CallsFor(n, "Send")) = (IF received[n].id # "" THEN 1 ELSE 0)
            /\ \A i \in CallsFor(n, "Send") : wire[i].id = received[n].id /\ wire[i].arg = "ack"
            /\ EndedBy(n) => \E i \in CallsFor(n, "Send") : wire[i].ret # Nil

\* a token-pool event without transaction hash and with an id has been acked,
\* and the loop is back at the select
C21_Witness ==
    /\ loopPc = "select"
    /\ \E n \in MessageNumbers :
          /\ LacksField(received[n])
          /\ received[n].data.transactionHash = Absent
          /\ received[n].id # ""
          /\ CallsFor(n, "Send") # {}
          /\ n < Len(received)

\* a message the loop swallows: bytes that cannot be decoded, an unknown event
\* type, a receipt or a token-pool event with missing or invalid fields
Swallowed(m) ==
    \/ ~m.json
    \/ m.event \notin {messageReceipt, messageTokenPool}
    \/ m.event = messageReceipt /\ m.data.id \notin UUIDs
    \/ m.event = messageTokenPool
          /\ (m.data.trackingId \notin UUIDs \/ \E f \in TokenPoolRequired : m.data[f] = Absent)

\* the swallowed messages do not end the loop, except through the failed send of an ack
SwallowedNeverTerminate ==
    \A n \in MessageNumbers :
        Swallowed(received[n]) /\ EndedBy(n) => LastCall.call = "Send"

\* the ways the loop ends, the failing calls in ending being those of the set calls
TerminatesOnlyOn(calls) ==
    loopPc = "returned" =>
        \/ returnedAt = 156 /\ ctxDone
        \/ returnedAt = 161
        \/ /\ returnedAt = 193
           /\ LastCall.n = Len(received)
           /\ LastCall.ret # Nil
           /\ LastCall.call \in calls

\* C22 as stated: the loop terminates only on context cancellation, closure of
\* the receive channel, a failed ack send, or an error returned by the
\* TokenPoolCreated callback, the only event-processing error that ends it;
\* undecodable messages, unknown event types, receipts and token-pool events
\* with missing or invalid fields never terminate it.
C22_Original ==
    /\ TerminatesOnlyOn({"Send", "TokenPoolCreated"})
    /\ SwallowedNeverTerminate

\* C22, amended: the loop terminates only on context cancellation, closure of
\* the receive channel, a failed ack send, or an error returned by the
\* TokenPoolCreated callback or by the OpUpdate callback, the only
\* event-processing errors that end it; the swallowed messages never do.
C22_TerminatesOnlyOn ==
    /\ TerminatesOnlyOn({"Send", "TokenPoolCreated", "TokensOpUpdate"})
    /\ SwallowedNeverTerminate

\* bytes that could not be decoded were passed over, and the error of the
\* TokenPoolCreated callback for the next message has ended the loop
C22_Witness ==
    /\ loopPc = "returned"
    /\ returnedAt = 193
    /\ Len(received) = 2
    /\ ~received[1].json
    /\ LastCall.call = "TokenPoolCreated"
    /\ LastCall.ret # Nil
    /\ wire[Len(wire)].call = "Close"

\* C23: the loop never sends an ack for a receipt message, whatever its id
\* and whatever the OpUpdate callback returned: nothing is sent on the
\* websocket while a receipt is dealt with.
C23_ReceiptsNeverAcked ==
    \A n \in MessageNumbers :
        received[n].json /\ received[n].event = messageReceipt =>
            CallsFor(n, "Send") = {}

\* a receipt with a message id has been handed to OpUpdate, which returned
\* without error, and the loop has taken the next message
C23_Witness ==
    \E n \in MessageNumbers :
        /\ received[n].event = messageReceipt
        /\ received[n].id # ""
        /\ \E i \in CallsFor(n, "TokensOpUpdate") : wire[i].ret = Nil
        /\ n < Len(received)

\* C24: for every received non-receipt event that has a non-empty id and is
\* processed without error, the loop sends exactly one ack carrying that id,
\* after the callback of the event has returned and before the next message
\* is taken; an event with empty id or whose callback failed gets no ack.
C24_AckedExactlyOnce ==
    \A n \in MessageNumbers :
        received[n].json /\ received[n].event # messageReceipt =>
            LET callbacks == CallsFor(n, "TokenPoolCreated")
                acks == CallsFor(n, "Send")
            IN  IF received[n].id # "" /\ \A c \in callbacks : wire[c].ret = Nil
                THEN /\ Cardinality(acks) = 1
                     /\ \A a \in acks :
                           /\ wire[a].id = received[n].id
                           /\ wire[a].arg = "ack"
                           /\ \A c \in callbacks : c < a
                ELSE acks = {}

\* TokenPoolCreated has returned without error for an event with an id, the
\* ack has been sent after it, and then the next message has been taken
C24_Witness ==
    \E n \in MessageNumbers :
        /\ received[n].event = messageTokenPool
        /\ received[n].id # ""
        /\ \E c \in CallsFor(n, "TokenPoolCreated"), a \in CallsFor(n, "Send") :
              wire[c].ret = Nil /\ c < a /\ wire[a].ret = Nil
        /\ n < Len(received)

\* C25: for a receipt whose id parses as a uuid the OpUpdate callback is
\* invoked exactly once, with that operation id and with status succeeded
\* when the success flag is true and failed otherwise, an absent flag
\* included; a receipt with an empty or unparseable id invokes no callback.
C25_ReceiptToOpUpdate ==
    \A n \in MessageNumbers :
        received[n].json /\ received[n].event = messageReceipt =>
            LET data == received[n].data
                updates == CallsFor(n, "TokensOpUpdate")
            IN  /\ CallsFor(n, "TokenPoolCreated") = {}
                /\ IF data.id \in UUIDs
                   THEN /\ Cardinality(updates) = 1
                        /\ \A u \in updates :
                              /\ wire[u].id = data.id
                              /\ wire[u].arg = IF data.success = "true" THEN "succeeded" ELSE "failed"
                   ELSE updates = {}

\* a receipt with a uuid and no success flag has been reported as failed
C25_Witness ==
    \E n \in MessageNumbers :
        /\ received[n].json
        /\ received[n].event = messageReceipt
        /\ received[n].data.id \in UUIDs
        /\ received[n].data.success = Absent
        /\ \E u \in CallsFor(n, "TokensOpUpdate") : wire[u].arg = "failed"

---------------------------------------------------------------------------
(***************************************************************************)
(* Model of the private dispatcher, internal/privatemessaging: the batch   *)
(* callback for the batches of private messages.  dispatchBatch resolves   *)
(* the nodes of the group and runs sendAndSubmitBatch in one store         *)
(* transaction (RunAsGroup).  The dispatcher is sequential; one step of    *)
(* the model is one turn of one of its loops, with the calls on the store, *)
(* on the data exchange and on the pin submitter that the turn makes.      *)
(* What those calls return is the input.                                   *)
(***************************************************************************)

\* number of nodes in the group of a batch
MaxNodes == 2
\* number of data entries in the payload of a batch
MaxData == 2

OpTypeDataExchangeBlobSend == "DataExchangeBlobSend"
OpTypeDataExchangeBatchSend == "DataExchangeBatchSend"

\* GetBlobMatchingHash finding no blob: it returns nil, nil and the dispatcher fails with
MsgBlobNotFound == "FF10239"
NilBlob == "nil, nil"

\* the data entries of a payload: with the hash of a blob, or without a blob
DataEntries == [blob : {"", "blob1"}]

PrivateBatches ==
    {[author |-> "org1", tx |-> "tx1", data |-> data] :
        data \in UNION {[1..n -> DataEntries] : n \in 0..MaxData}}

\* the dispatcher's state as one record
CurDispatcher ==
    [pc |-> dispatcherPc, args |-> dispatcherArgs, calls |-> dispatcherCalls,
     err |-> dispatcherErr, runs |-> dispatcherRuns]

DispatcherBecomes(d) ==
    /\ dispatcherPc' = d.pc
    /\ dispatcherArgs' = d.args
    /\ dispatcherCalls' = d.calls
    /\ dispatcherErr' = d.err
    /\ dispatcherRuns' = d.runs

At(at, node, data) == [at |-> at, node |-> node, data |-> data]

\* a call made on a collaborator, at the position the dispatcher is in
Called(d, call, arg, ret) ==
    [d EXCEPT !.calls = Append(@, [call |-> call, arg |-> arg, node |-> d.pc.node,
                                   data |-> d.pc.data, run |-> d.runs, ret |-> ret])]

\* dispatchBatch returns
dispatcherReturn(d, err) ==
    [Called([d EXCEPT !.pc = At("returned", 0, 0)], "return", "dispatchBatch", err) EXCEPT !.err = err]

\* variant: a data entry whose blob the store does not have is passed over
transferBlobsPassesMissing(d, blob, transfer, upsert) ==
    LET entry == d.args.batch.data[d.pc.data]
        got == Called(d, "GetBlobMatchingHash", entry.blob, blob)
        sent == Called(got, "TransferBLOB", entry.blob, transfer)
        recorded == Called(sent, "UpsertOperation", OpTypeDataExchangeBlobSend, upsert)
    IN  IF entry.blob = "" THEN [d |-> d, err |-> Nil]
        ELSE IF blob = Pop THEN [d |-> got, err |-> Pop]
        ELSE IF blob = NilBlob THEN [d |-> got, err |-> Nil]
        ELSE IF transfer # Nil THEN [d |-> sent, err |-> transfer]
        ELSE [d |-> recorded, err |-> upsert]

\* transferBlobs(ctx, data, txid, node), one turn of its loop over data: the
\* entry d.pc.data for the node d.pc.node
transferBlobs(d, blob, transfer, upsert) ==
    LET entry == d.args.batch.data[d.pc.data]
        got == Called(d, "GetBlobMatchingHash", entry.blob, blob)
        sent == Called(got, "TransferBLOB", entry.blob, transfer)
        recorded == Called(sent, "UpsertOperation", OpTypeDataExchangeBlobSend, upsert)
    IN  IF entry.blob = "" THEN [d |-> d, err |-> Nil]
        ELSE IF blob = Pop THEN [d |-> got, err |-> Pop]
        ELSE IF blob = NilBlob THEN [d |-> got, err |-> MsgBlobNotFound]
        ELSE IF transfer # Nil THEN [d |-> sent, err |-> transfer]
        ELSE [d |-> recorded, err |-> upsert]

\* the envelope of the batch for the node d.pc.node
sendMessage(d, send, upsert) ==
    LET sent == Called(d, "SendMessage", "payload", send)
        recorded == Called(sent, "UpsertOperation", OpTypeDataExchangeBatchSend, upsert)
    IN  IF send # Nil THEN [d |-> sent, err |-> send]
        ELSE [d |-> recorded, err |-> upsert]

\* writeTransaction(ctx, batch, contexts): the pin of the batch
writeTransaction(d, pin) ==
    [d |-> Called(d, "SubmitPinnedBatch", d.args.batch.tx, pin), err |-> pin]

\* variant: the blobs and the envelope go to one node after the other
sendAndSubmitBatchNodeByNode(d) ==
    LET nodes == Len(d.args.nodes)
        entries == Len(d.args.batch.data)
    IN  CASE d.pc.at = "called" /\ nodes = 0 -> At("pin", 0, 0)
          [] d.pc.at = "called" /\ entries = 0 -> At("send", 1, 0)
          [] d.pc.at = "called" -> At("blobs", 1, 1)
          [] d.pc.at = "blobs" /\ d.pc.data < entries -> At("blobs", d.pc.node, d.pc.data + 1)
          [] d.pc.at = "blobs" -> At("send", d.pc.node, 0)
          [] d.pc.at = "send" /\ d.pc.node < nodes /\ entries = 0 -> At("send", d.pc.node + 1, 0)
          [] d.pc.at = "send" /\ d.pc.node < nodes -> At("blobs", d.pc.node + 1, 1)
          [] OTHER -> At("pin", 0, 0)

\* sendAndSubmitBatch(ctx, batch, nodes, payload, contexts): where it goes on
\* when the turn at d.pc has ended without error
sendAndSubmitBatch(d) ==
    LET nodes == Len(d.args.nodes)
        entries == Len(d.args.batch.data)
    IN  CASE d.pc.at = "called" /\ nodes = 0 -> At("pin", 0, 0)
          [] d.pc.at = "called" /\ entries = 0 -> At("send", 1, 0)
          [] d.pc.at = "called" -> At("blobs", 1, 1)
          [] d.pc.at = "blobs" /\ d.pc.data < entries -> At("blobs", d.pc.node, d.pc.data + 1)
          [] d.pc.at = "blobs" /\ d.pc.node < nodes -> At("blobs", d.pc.node + 1, 1)
          [] d.pc.at = "blobs" -> At("send", 1, 0)
          [] d.pc.at = "send" /\ d.pc.node < nodes -> At("send", d.pc.node + 1, 0)
          [] OTHER -> At("pin", 0, 0)

\* a turn has ended: with an error the dispatcher returns it, without one it goes on
dispatcherStep(r) ==
    IF r.err # Nil THEN dispatcherReturn(r.d, r.err)
    ELSE [r.d EXCEPT !.pc = sendAndSubmitBatch(r.d)]

\* the batch processor calls privateMessaging.dispatchBatch(ctx, batch, contexts)
PrivateDispatchBatch ==
    /\ dispatcherPc.at = "none"
    /\ \E batch \in PrivateBatches, n \in 0..MaxNodes, group \in {Nil, Pop} :
          LET d == [CurDispatcher EXCEPT
                       !.args = [batch |-> batch, nodes |-> [i \in 1..n |-> i]],
                       !.runs = 1,
                       !.pc = At("called", 0, 0)]
          IN  DispatcherBecomes(dispatcherStep(
                  [d |-> Called(d, "GetGroupByHash", "group1", group), err |-> group]))
    /\ UNCHANGED <<processorVars, fftokensVars, tradeVars>>

TransferBlobs ==
    /\ dispatcherPc.at = "blobs"
    /\ \E blob \in {Nil, NilBlob, Pop}, transfer \in {Nil, Pop}, upsert \in {Nil, Pop} :
          DispatcherBecomes(dispatcherStep(transferBlobs(CurDispatcher, blob, transfer, upsert)))
    /\ UNCHANGED <<processorVars, fftokensVars, tradeVars>>

SendMessage ==
    /\ dispatcherPc.at = "send"
    /\ \E send \in {Nil, Pop}, upsert \in {Nil, Pop} :
          DispatcherBecomes(dispatcherStep(sendMessage(CurDispatcher, send, upsert)))
    /\ UNCHANGED <<processorVars, fftokensVars, tradeVars>>

WriteTransaction ==
    /\ dispatcherPc.at = "pin"
    /\ \E pin \in {Nil, Pop} :
          LET r == writeTransaction(CurDispatcher, pin)
          IN  DispatcherBecomes(dispatcherReturn(r.d, r.err))
    /\ UNCHANGED <<processorVars, fftokensVars, tradeVars>>

privatemessagingInit ==
    /\ Constructed(0, BATCH_MAX_RECORDS)
    /\ fftokensIdle
    /\ dispatcherIdle
    /\ tradeIdle

privatemessagingNext ==
    \/ PrivateDispatchBatch
    \/ TransferBlobs
    \/ SendMessage
    \/ WriteTransaction

privatemessagingSpec == privatemessagingInit /\ [][privatemessagingNext]_vars

---------------------------------------------------------------------------
\* Vocabulary of the properties of the dispatchers

CallNumbers == DOMAIN dispatcherCalls

\* the calls of one kind made so far
CallsOf(call) == {c \in CallNumbers : dispatcherCalls[c].call = call}

\* the Operations of one type handed to the store so far
OperationsOf(type) ==
    {c \in CallsOf("UpsertOperation") : dispatcherCalls[c].arg = type}

\* every call of the first set was made before every call of the second
AllBefore(first, second) == \A a \in first, b \in second : a < b

Recipients == DOMAIN dispatcherArgs.nodes

\* the data entries of the batch that carry a blob
BlobEntries ==
    {j \in DOMAIN dispatcherArgs.batch.data : dispatcherArgs.batch.data[j].blob # ""}

\* C26: in a private dispatch every blob transfer to every recipient is
\* issued before any batch envelope is sent to any recipient, and every
\* envelope is sent before the pin is submitted; the Operations are recorded
\* in the same order: all DataExchangeBlobSend, then all
\* DataExchangeBatchSend, then the pin.
C26_BlobsEnvelopesPin ==
    /\ AllBefore(CallsOf("TransferBLOB"), CallsOf("SendMessage"))
    /\ AllBefore(CallsOf("SendMessage"), CallsOf("SubmitPinnedBatch"))
    /\ AllBefore(OperationsOf("DataExchangeBlobSend"), OperationsOf("DataExchangeBatchSend"))
    /\ AllBefore(OperationsOf("DataExchangeBatchSend"), CallsOf("SubmitPinnedBatch"))
    /\ CallsOf("SendMessage") # {} =>
          \A node \in Recipients, j \in BlobEntries :
              \E c \in CallsOf("TransferBLOB") :
                  dispatcherCalls[c].node = node /\ dispatcherCalls[c].data = j
    /\ CallsOf("SubmitPinnedBatch") # {} =>
          \A node \in Recipients :
              \E c \in CallsOf("SendMessage") : dispatcherCalls[c].node = node

\* a blob has gone to two nodes, then the envelope to both, then the pin
C26_Witness ==
    /\ Cardinality(Recipients) = 2
    /\ BlobEntries # {}
    /\ Cardinality(OperationsOf("DataExchangeBlobSend")) >= 2
    /\ Cardinality(OperationsOf("DataExchangeBatchSend")) = 2
    /\ \E c \in CallsOf("SubmitPinnedBatch") : dispatcherCalls[c].ret = Nil
    /\ dispatcherPc.at = "returned"
    /\ dispatcherErr = Nil

\* the calls that did not succeed
FailedCalls == {c \in CallNumbers : dispatcherCalls[c].ret # Nil}

\* C27: the pin is submitted only if every preceding step succeeded: a
\* missing blob, a failed TransferBLOB, a failed SendMessage or a failed
\* Operation upsert makes the dispatcher return the error without submitting
\* the pin, and after a missing blob or a failed transfer no envelope is sent
\* to that recipient.
C27_PinOnlyAfterSuccess ==
    /\ \A c \in CallsOf("SubmitPinnedBatch") : \A b \in FailedCalls : ~(b < c)
    /\ \A b \in FailedCalls :
          dispatcherCalls[b].call \in
                  {"GetBlobMatchingHash", "TransferBLOB", "SendMessage", "UpsertOperation"} =>
              /\ dispatcherPc.at = "returned"
              /\ dispatcherErr =
                    (IF dispatcherCalls[b].ret = NilBlob THEN "FF10239" ELSE dispatcherCalls[b].ret)
              /\ CallsOf("SubmitPinnedBatch") = {}
    /\ \A b \in FailedCalls :
          dispatcherCalls[b].call \in {"GetBlobMatchingHash", "TransferBLOB"} =>
              \A c \in CallsOf("SendMessage") : dispatcherCalls[c].node # dispatcherCalls[b].node

\* the blob went to the first node, the store did not have it when it was due
\* to go to the second: the dispatcher has returned FF10239, no envelope sent
C27_Witness ==
    /\ dispatcherPc.at = "returned"
    /\ dispatcherErr = "FF10239"
    /\ \E a \in CallsOf("TransferBLOB"), b \in CallsOf("GetBlobMatchingHash") :
          /\ dispatcherCalls[a].node = 1 /\ dispatcherCalls[a].ret = Nil
          /\ dispatcherCalls[b].node = 2 /\ dispatcherCalls[b].ret = NilBlob
    /\ CallsOf("SendMessage") = {}
    /\ CallsOf("SubmitPinnedBatch") = {}

---------------------------------------------------------------------------
(***************************************************************************)
(* Model of the broadcast dispatcher, internal/broadcast: the batch        *)
(* callback for the batches of broadcast messages.  dispatchBatch          *)
(* serializes the payload, publishes it to the public storage and runs     *)
(* submitTXAndUpdateDB in one store transaction (RunAsGroup).  One step of *)
(* the model is one call on a collaborator.  The batch processor that      *)
(* called the dispatcher calls it again when it returned an error.         *)
(***************************************************************************)

\* config.OrgIdentity of the node
OrgIdentity == "UTNodeID"

OpTypePublicStorageBatchBroadcast == "PublicStorageBatchBroadcast"
OpStatusPending == "pending"

\* the error of a payload that cannot be serialized
MsgSerializationFailed == "FF10137"

BroadcastBatches ==
    [author : {OrgIdentity, "wrong"}, tx : {"tx1"}, data : {<<[value |-> "{}"]>>, <<[value |-> "!json"]>>},
     payloadRef : {""}]

\* what PublishData can return
Published == {[id |-> "id1", err |-> Nil], [id |-> "id2", err |-> Nil], [id |-> "", err |-> Pop]}

\* json.Marshal of the payload
Marshal(payload) ==
    IF \E i \in DOMAIN payload : payload[i].value = "!json"
    THEN [bytes |-> "", err |-> MsgSerializationFailed]
    ELSE [bytes |-> "payload", err |-> Nil]

\* variant: a batch of another author is not dispatched, and reported as done
broadcastDispatchBatchOwnOnly(d) ==
    IF d.args.batch.author # OrgIdentity THEN dispatcherReturn(d, Nil)
    ELSE IF Marshal(d.args.batch.data).err # Nil
    THEN dispatcherReturn(d, Marshal(d.args.batch.data).err)
    ELSE [d EXCEPT !.pc = At("publish", 0, 0)]

\* broadcastManager.dispatchBatch(ctx, batch, pins), up to the call of PublishData
broadcastDispatchBatch(d) ==
    IF Marshal(d.args.batch.data).err # Nil
    THEN dispatcherReturn(d, Marshal(d.args.batch.data).err)
    ELSE [d EXCEPT !.pc = At("publish", 0, 0)]

\* variant: the store transaction is run whatever PublishData returned
publishDataUnchecked(d, published) ==
    LET called == Called(d, "PublishData", "payload", published.err)
    IN  [Called([called EXCEPT !.args.batch.payloadRef = published.id],
                "RunAsGroup", "submitTXAndUpdateDB", Nil)
            EXCEPT !.pc = At("update", 0, 0)]

\* PublishData, and the call of RunAsGroup that follows it
publishData(d, published) ==
    LET called == Called(d, "PublishData", "payload", published.err)
    IN  IF published.err # Nil THEN dispatcherReturn(called, published.err)
        ELSE [Called([called EXCEPT !.args.batch.payloadRef = published.id],
                     "RunAsGroup", "submitTXAndUpdateDB", Nil)
                 EXCEPT !.pc = At("update", 0, 0)]

\* the Operation of the upload
NewTXOperation(batch) ==
    [type |-> OpTypePublicStorageBatchBroadcast, status |-> OpStatusPending,
     plugin |-> "ut_publicstorage", backendID |-> batch.payloadRef, tx |-> batch.tx]

\* variant: the pin is submitted before the Operation of the upload is recorded
submitTXAndUpdateDBPinFirst(d, ret) ==
    CASE d.pc.at = "update" ->
            IF ret # Nil THEN dispatcherReturn(Called(d, "UpdateBatch", d.args.batch.payloadRef, ret), ret)
            ELSE [Called(d, "UpdateBatch", d.args.batch.payloadRef, ret) EXCEPT !.pc = At("pin", 0, 0)]
      [] d.pc.at = "pin" ->
            IF ret # Nil THEN dispatcherReturn(Called(d, "SubmitPinnedBatch", d.args.batch.tx, ret), ret)
            ELSE [Called(d, "SubmitPinnedBatch", d.args.batch.tx, ret) EXCEPT !.pc = At("operation", 0, 0)]
      [] OTHER ->
            dispatcherReturn(Called(d, "UpsertOperation", NewTXOperation(d.args.batch), ret), ret)

\* submitTXAndUpdateDB(ctx, batch, contexts), one call at a time
submitTXAndUpdateDB(d, ret) ==
    CASE d.pc.at = "update" ->
            IF ret # Nil THEN dispatcherReturn(Called(d, "UpdateBatch", d.args.batch.payloadRef, ret), ret)
            ELSE [Called(d, "UpdateBatch", d.args.batch.payloadRef, ret) EXCEPT !.pc = At("operation", 0, 0)]
      [] d.pc.at = "operation" ->
            IF ret # Nil THEN dispatcherReturn(Called(d, "UpsertOperation", NewTXOperation(d.args.batch), ret), ret)
            ELSE [Called(d, "UpsertOperation", NewTXOperation(d.args.batch), ret) EXCEPT !.pc = At("pin", 0, 0)]
      [] OTHER ->
            dispatcherReturn(Called(d, "SubmitPinnedBatch", d.args.batch.tx, ret), ret)

\* processBatch: the batch callback has failed, it is called again
processBatchRetry(d) ==
    broadcastDispatchBatch([d EXCEPT !.runs = @ + 1, !.err = Nil, !.pc = At("called", 0, 0)])

\* the batch processor calls broadcastManager.dispatchBatch(ctx, batch, pins)
BroadcastDispatchBatch ==
    /\ dispatcherPc.at = "none"
    /\ \E batch \in BroadcastBatches :
          DispatcherBecomes(broadcastDispatchBatch(
              [CurDispatcher EXCEPT !.args = [batch |-> batch, nodes |-> <<>>],
                                    !.runs = 1, !.pc = At("called", 0, 0)]))
    /\ UNCHANGED <<processorVars, fftokensVars, tradeVars>>

PublishData ==
    /\ dispatcherPc.at = "publish"
    /\ \E published \in Published : DispatcherBecomes(publishData(CurDispatcher, published))
    /\ UNCHANGED <<processorVars, fftokensVars, tradeVars>>

SubmitTXAndUpdateDB ==
    /\ dispatcherPc.at \in {"update", "operation", "pin"}
    /\ \E ret \in {Nil, Pop} : DispatcherBecomes(submitTXAndUpdateDB(CurDispatcher, ret))
    /\ UNCHANGED <<processorVars, fftokensVars, tradeVars>>

\* the batch processor's retry of a batch callback that failed
RetryDispatch ==
    /\ dispatcherPc.at = "returned"
    /\ dispatcherErr # Nil
    /\ dispatcherRuns <= MaxFailures
    /\ DispatcherBecomes(processBatchRetry(CurDispatcher))
    /\ UNCHANGED <<processorVars, fftokensVars, tradeVars>>

broadcastInit ==
    /\ Constructed(0, BATCH_MAX_RECORDS)
    /\ fftokensIdle
    /\ dispatcherIdle
    /\ tradeIdle

broadcastNext ==
    \/ BroadcastDispatchBatch
    \/ PublishData
    \/ SubmitTXAndUpdateDB
    \/ RetryDispatch

broadcastSpec == broadcastInit /\ [][broadcastNext]_vars

---------------------------------------------------------------------------
\* Vocabulary of the properties of the broadcast dispatcher

Runs == 1..dispatcherRuns

\* the calls of one kind made in one call of dispatchBatch
CallsIn(run, call) == {c \in CallsOf(call) : dispatcherCalls[c].run = run}

\* the calls of one kind that failed in one call of dispatchBatch
FailedIn(run, call) == {c \in CallsIn(run, call) : dispatcherCalls[c].ret # Nil}

\* dispatchBatch has returned the error of the call c
Returned(run, c) ==
    \E r \in CallsIn(run, "return") : c < r /\ dispatcherCalls[r].ret = dispatcherCalls[c].ret

\* the batch processor calls the dispatcher again after the call number run
Retried(run) == run < dispatcherRuns \/ ENABLED RetryDispatch

\* C28: when publishing the payload fails the dispatcher returns the error
\* without opening the store transaction and without submitting a pin; a
\* failure of the pin submission is returned the same way; both make the
\* batch processor retry (as long as the bound on failures allows).
C28_PublishAndPinFailuresPropagate ==
    \A run \in Runs :
        /\ \A c \in FailedIn(run, "PublishData") :
              /\ Returned(run, c)
              /\ CallsIn(run, "RunAsGroup") = {}
              /\ CallsIn(run, "UpdateBatch") = {}
              /\ CallsIn(run, "UpsertOperation") = {}
              /\ CallsIn(run, "SubmitPinnedBatch") = {}
              /\ run <= MaxFailures => Retried(run)
        /\ \A c \in FailedIn(run, "SubmitPinnedBatch") :
              /\ Returned(run, c)
              /\ run <= MaxFailures => Retried(run)

\* the publication failed in the first call, the pin submission in the
\* second, and the batch processor has called the dispatcher a third time
C28_Witness ==
    /\ FailedIn(1, "PublishData") # {}
    /\ FailedIn(2, "SubmitPinnedBatch") # {}
    /\ dispatcherRuns = 3

\* the dispatcher has been given a batch whose author is not this node's identity
ForeignAuthor == dispatcherRuns > 0 /\ dispatcherArgs.batch.author # OrgIdentity

\* C29 as stated: given a batch whose author is not this node's identity, the
\* dispatcher returns success without submitting a pin.
C29_Original ==
    ForeignAuthor =>
        /\ CallsOf("SubmitPinnedBatch") = {}
        /\ dispatcherPc.at = "returned" /\ FailedCalls \ CallsOf("return") = {}
              /\ Marshal(dispatcherArgs.batch.data).err = Nil
           => dispatcherErr = Nil

\* C29, amended: given a batch whose author is not this node's identity, the
\* dispatcher does what it does for any batch: once the payload is published
\* and the batch row and the Operation are written it submits the pin, it
\* returns success only after a pin submission that succeeded, and it returns
\* the error of one that failed.
C29_ForeignAuthorIsPinned ==
    ForeignAuthor =>
        \A run \in Runs :
            /\ \A r \in CallsIn(run, "return") :
                  /\ \A o \in CallsIn(run, "UpsertOperation") :
                        dispatcherCalls[o].ret = Nil => CallsIn(run, "SubmitPinnedBatch") # {}
                  /\ dispatcherCalls[r].ret = Nil =>
                        \E c \in CallsIn(run, "SubmitPinnedBatch") : c < r /\ dispatcherCalls[c].ret = Nil
            /\ \A c \in FailedIn(run, "SubmitPinnedBatch") : Returned(run, c)

\* the pin of a batch of the author "wrong" was submitted and failed, the
\* dispatcher has returned that error
C29_Witness ==
    /\ ForeignAuthor
    /\ dispatcherPc.at = "returned"
    /\ dispatcherErr = Pop
    /\ FailedIn(dispatcherRuns, "SubmitPinnedBatch") # {}
    /\ FailedIn(dispatcherRuns, "UpdateBatch") = {}
    /\ FailedIn(dispatcherRuns, "UpsertOperation") = {}

\* C30: inside the store transaction the dispatcher first updates the batch
\* row with the payloadRef, then upserts one pending
\* PublicStorageBatchBroadcast Operation (plugin = name of the content store,
\* backendID = payloadRef, transaction = id of the batch's transaction), then
\* submits the pin; if the batch update or the Operation upsert fails, the
\* error is returned and the pin is not submitted.
C30_UpdateOperationPin ==
    \A run \in Runs :
        /\ Cardinality(CallsIn(run, "UpdateBatch")) <= 1
        /\ Cardinality(CallsIn(run, "UpsertOperation")) <= 1
        /\ \A o \in CallsIn(run, "UpsertOperation") :
              /\ dispatcherCalls[o].arg =
                    [type |-> "PublicStorageBatchBroadcast", status |-> "pending",
                     plugin |-> "ut_publicstorage", backendID |-> dispatcherCalls[o].arg.backendID,
                     tx |-> dispatcherArgs.batch.tx]
              /\ \E g \in CallsIn(run, "RunAsGroup"), u \in CallsIn(run, "UpdateBatch") :
                    /\ g < u /\ u < o
                    /\ dispatcherCalls[u].ret = Nil
                    /\ dispatcherCalls[u].arg \in {"id1", "id2"}
                    /\ dispatcherCalls[o].arg.backendID = dispatcherCalls[u].arg
                    /\ run = dispatcherRuns => dispatcherCalls[u].arg = dispatcherArgs.batch.payloadRef
        /\ \A p \in CallsIn(run, "SubmitPinnedBatch") :
              \E o \in CallsIn(run, "UpsertOperation") : o < p /\ dispatcherCalls[o].ret = Nil
        /\ \A c \in FailedIn(run, "UpdateBatch") \cup FailedIn(run, "UpsertOperation") :
              /\ Returned(run, c)
              /\ CallsIn(run, "SubmitPinnedBatch") = {}
        /\ FailedIn(run, "UpdateBatch") # {} => CallsIn(run, "UpsertOperation") = {}

\* a batch published as "id2" has been dispatched: batch row, Operation, pin
C30_Witness ==
    /\ dispatcherPc.at = "returned"
    /\ dispatcherErr = Nil
    /\ dispatcherArgs.batch.payloadRef = "id2"
    /\ \E u \in CallsIn(dispatcherRuns, "UpdateBatch"), o \in CallsIn(dispatcherRuns, "UpsertOperation"),
          p \in CallsIn(dispatcherRuns, "SubmitPinnedBatch") :
          u < o /\ o < p /\ dispatcherCalls[p].ret = Nil

---------------------------------------------------------------------------
(***************************************************************************)
(* Model of the author side of an asset trade: assetTradeHandler receives  *)
(* a private-asset-instance-request and processPrivateAssetInstanceRequest *)
(* deals with it.  One step of the model is the piece of the function that *)
(* runs when the promise it awaits is settled: a read of the database, the *)
(* authorization, the document exchange transfer.  What the database       *)
(* returns, the messages that arrive on the app2app channel while the      *)
(* authorization is awaited, and the timeout are the inputs.               *)
(***************************************************************************)

\* config.app2app.destinations.client, config.assetTrailInstanceID
ClientDestination == "client"
ConfigAssetTrailInstanceID == "author-instance"

\* the requests, and the destinations they can come from (headers.from)
Destinations == {"requester", "elsewhere"}
AssetTrailInstanceIDs == {"requester-instance", ConfigAssetTrailInstanceID}
TradeRequests ==
    [type : {"private-asset-instance-request"}, tradeID : {"trade1", "trade2"},
     assetInstanceID : {"asset1"},
     requester : [address : {"0x1"}, assetTrailInstanceID : AssetTrailInstanceIDs]]

\* the authorizationID that uuidV4() returned
AuthorizationID == "authorization1"

\* what a read of the database gives: a row, null, or an error thrown
Row == "row"
Null == "null"
Thrown == "throws"

NoRow == [assetTrailInstanceID |-> "", app2appDestination |-> "", isContentPrivate |-> FALSE,
          contentSchemaHash |-> ""]

MemberRows ==
    {[NoRow EXCEPT !.assetTrailInstanceID = i, !.app2appDestination = d] :
        i \in AssetTrailInstanceIDs, d \in Destinations}

AssetDefinitionRows ==
    {[NoRow EXCEPT !.isContentPrivate = p, !.contentSchemaHash = h] :
        p \in BOOLEAN, h \in {"", "0xschema"}}

Retrieved(rows) == [ret : {Row}, row : rows] \cup [ret : {Null, Thrown}, row : {NoRow}]

\* the messages that can arrive on the app2app channel
Headers == [from : {ClientDestination, "elsewhere"}]
Contents ==
    [type : {"private-asset-instance-authorization-response", "private-asset-instance-request"},
     authorizationID : {AuthorizationID, "authorization0"},
     authorized : BOOLEAN]

\* the call's state as one record
CurTrade ==
    [pc |-> tradePc, tradeResponse |-> tradeResponse, locals |-> tradeLocals,
     authorization |-> authorization, dispatched |-> dispatched]

TradeBecomes(t) ==
    /\ tradePc' = t.pc
    /\ tradeResponse' = t.tradeResponse
    /\ tradeLocals' = t.locals
    /\ authorization' = t.authorization
    /\ dispatched' = t.dispatched

\* app2app.dispatchMessage(to, JSON.stringify(message))
dispatchMessage(t, to, type, message) ==
    [t EXCEPT !.dispatched = Append(@, [to |-> to, type |-> type, message |-> message])]

\* the finally block of processPrivateAssetInstanceRequest, and its return
tradeFinally(t) ==
    [dispatchMessage(t, t.locals.headers.from, "private-asset-instance-response", t.tradeResponse)
        EXCEPT !.pc = "returned"]

\* the catch block
tradeCatch(t, message) == tradeFinally([t EXCEPT !.tradeResponse.rejection = message])

\* processPrivateAssetInstanceRequest up to its first await
processPrivateAssetInstanceRequest(t, headers, request) ==
    [t EXCEPT !.locals.headers = headers, !.locals.request = request,
              !.tradeResponse.tradeID = request.tradeID, !.pc = "retrieveRequester"]

\* database.retrieveMemberByAddress(request.requester.address) has settled
requesterRetrieved(t, requester) ==
    IF requester.ret = Thrown THEN [t EXCEPT !.pc = "rejected"]
    ELSE IF requester.ret = Null THEN tradeCatch(t, "Unknown requester")
    ELSE IF requester.row.assetTrailInstanceID # t.locals.request.requester.assetTrailInstanceID
    THEN tradeCatch(t, "Requester asset trail instance mismatch")
    ELSE IF requester.row.app2appDestination # t.locals.headers.from
    THEN tradeCatch(t, "Requester App2App destination mismatch")
    ELSE [t EXCEPT !.pc = "retrieveAssetInstance"]

\* database.retrieveAssetInstanceByID(request.assetInstanceID) has settled
assetInstanceRetrieved(t, assetInstance) ==
    IF assetInstance.ret = Thrown THEN tradeCatch(t, "database error")
    ELSE IF assetInstance.ret = Null THEN tradeCatch(t, "Unknown asset instance")
    ELSE [t EXCEPT !.pc = "retrieveAuthor"]

\* database.retrieveMemberByAddress(assetInstance.author) has settled
authorRetrieved(t, author) ==
    IF author.ret = Thrown THEN tradeCatch(t, "database error")
    ELSE IF author.ret = Null THEN tradeCatch(t, "Unknown asset instance author")
    ELSE IF author.row.assetTrailInstanceID # ConfigAssetTrailInstanceID
    THEN tradeCatch(t, "Asset instance not authored")
    ELSE [t EXCEPT !.pc = "retrieveAssetDefinition"]

\* handlePrivateAssetInstanceAuthorization: the executor of its promise
handlePrivateAssetInstanceAuthorization(t) ==
    [dispatchMessage([t EXCEPT !.authorization = [timeout |-> TRUE, listener |-> TRUE]],
                     ClientDestination, "private-asset-instance-authorization-request", AuthorizationID)
        EXCEPT !.pc = "authorization"]

\* database.retrieveAssetDefinitionByID(assetInstance.assetDefinitionID) has settled
assetDefinitionRetrieved(t, assetDefinition) ==
    IF assetDefinition.ret = Thrown THEN tradeCatch(t, "database error")
    ELSE IF assetDefinition.ret = Null THEN tradeCatch(t, "Unknown asset definition")
    ELSE IF ~assetDefinition.row.isContentPrivate THEN tradeCatch(t, "Asset instance not private")
    ELSE handlePrivateAssetInstanceAuthorization(
             [t EXCEPT !.locals.contentSchemaHash = assetDefinition.row.contentSchemaHash])

\* the promise of handlePrivateAssetInstanceAuthorization was resolved
tradeAuthorized(t, authorized) ==
    IF authorized # TRUE THEN tradeCatch(t, "Access denied")
    ELSE IF t.locals.contentSchemaHash # ""
    THEN tradeFinally([t EXCEPT !.tradeResponse.content = "content"])
    ELSE [t EXCEPT !.pc = "transfer"]

\* the listener that handlePrivateAssetInstanceAuthorization installed is called
app2appListener(t0, headers, content) ==
    LET t == [t0 EXCEPT !.authorization = [timeout |-> FALSE, listener |-> FALSE]]
    IN  IF /\ headers.from = ClientDestination
           /\ content.type = "private-asset-instance-authorization-response"
           /\ content.authorizationID = AuthorizationID
        THEN tradeAuthorized(t, content.authorized)
        ELSE t

\* the timeout that handlePrivateAssetInstanceAuthorization set is due
authorizationTimeout(t) ==
    tradeCatch([t EXCEPT !.authorization = [timeout |-> FALSE, listener |-> FALSE]],
               "Asset instance authorization response timed out")

\* docExchange.transfer has settled
transferred(t, ret) ==
    IF ret = Thrown THEN tradeCatch(t, "transfer error")
    ELSE tradeFinally([t EXCEPT !.tradeResponse.filename = "filename"])

notTrading == <<processorVars, fftokensVars, dispatcherVars>>

\* assetTradeHandler(headers, content) with a private-asset-instance-request
AssetTradeHandler ==
    /\ tradePc = "none"
    /\ \E from \in Destinations, request \in TradeRequests :
          TradeBecomes(processPrivateAssetInstanceRequest(CurTrade, [from |-> from], request))
    /\ UNCHANGED notTrading

RequesterRetrieved ==
    /\ tradePc = "retrieveRequester"
    /\ \E requester \in Retrieved(MemberRows) : TradeBecomes(requesterRetrieved(CurTrade, requester))
    /\ UNCHANGED notTrading

AssetInstanceRetrieved ==
    /\ tradePc = "retrieveAssetInstance"
    /\ \E assetInstance \in Retrieved({NoRow}) :
          TradeBecomes(assetInstanceRetrieved(CurTrade, assetInstance))
    /\ UNCHANGED notTrading

AuthorRetrieved ==
    /\ tradePc = "retrieveAuthor"
    /\ \E author \in Retrieved(MemberRows) : TradeBecomes(authorRetrieved(CurTrade, author))
    /\ UNCHANGED notTrading

AssetDefinitionRetrieved ==
    /\ tradePc = "retrieveAssetDefinition"
    /\ \E assetDefinition \in Retrieved(AssetDefinitionRows) :
          TradeBecomes(assetDefinitionRetrieved(CurTrade, assetDefinition))
    /\ UNCHANGED notTrading

\* a message arrives on the app2app channel while the listener is installed
App2AppMessage ==
    /\ authorization.listener
    /\ \E headers \in Headers, content \in Contents :
          TradeBecomes(app2appListener(CurTrade, headers, content))
    /\ UNCHANGED notTrading

AuthorizationTimeout ==
    /\ authorization.timeout
    /\ TradeBecomes(authorizationTimeout(CurTrade))
    /\ UNCHANGED notTrading

Transferred ==
    /\ tradePc = "transfer"
    /\ \E ret \in {Row, Thrown} : TradeBecomes(transferred(CurTrade, ret))
    /\ UNCHANGED notTrading

tradeInit ==
    /\ Constructed(0, BATCH_MAX_RECORDS)
    /\ fftokensIdle
    /\ dispatcherIdle
    /\ tradeIdle

tradeNext ==
    \/ AssetTradeHandler
    \/ RequesterRetrieved
    \/ AssetInstanceRetrieved
    \/ AuthorRetrieved
    \/ AssetDefinitionRetrieved
    \/ App2AppMessage
    \/ AuthorizationTimeout
    \/ Transferred

tradeSpec == tradeInit /\ [][tradeNext]_vars

\* every read of the database and the transfer settle, and while the
\* authorization is awaited a message arrives or the timeout fires
tradeLiveSpec == tradeSpec /\ WF_vars(tradeNext)

\* the response envelopes dispatched so far
Responses ==
    {i \in 1..Len(dispatched) : dispatched[i].type = "private-asset-instance-response"}

\* C31: every private-asset-instance-request that is processed is answered:
\* whatever path the processing takes (success, a failed check of a lookup,
\* authorization denied or timed out, an error thrown), eventually exactly
\* one response envelope has been dispatched, to the destination the request
\* came from and with the request's tradeID.
C31_ExactlyOneResponse ==
    (tradePc = "retrieveRequester")
        ~> (/\ Cardinality(Responses) = 1
            /\ \A i \in Responses :
                  /\ dispatched[i].to = tradeLocals.headers.from
                  /\ dispatched[i].message.tradeID = tradeLocals.request.tradeID)

---------------------------------------------------------------------------
\* the assembler loop is running: it is suspended on upsertBatch or on
\* dispatchBatch (between two steps it is nowhere else)
AssemblerRunning == asmPc \in {"upsert", "dispatch"}

\* the last step was a call of add
AddCalled == lastEvent.ev = "add"

\* C32: one assembler loop at most runs for a processor.  The assembling
\* flag is set exactly while the loop runs, its suspensions on upsertBatch
\* and dispatchBatch included, and is clear once the loop has exited; a call
\* of assembler() made (by add) while the flag is set leaves the running
\* loop as it is (the tasks it has taken, its batch, the slot, where it is
\* suspended) and does nothing to the queue but evict and push.
C32_OneAssembler ==
    /\ [](assembling <=> AssemblerRunning)
    /\ [][(assembling /\ AddCalled') =>
            /\ assembling' /\ asmPc' = asmPc
            /\ chosen' = chosen /\ asmBatch' = asmBatch
            /\ assemblyBatch' = assemblyBatch /\ batches' = batches
            /\ persisted' = persisted /\ timers' = timers
            /\ \A r \in Records : task'[r].st \in {task[r].st, "queued", "timeout"}]_vars

\* add was called while the loop is suspended on upsertBatch: a stale task
\* has been evicted, the new task waits in the queue
C32_Witness ==
    /\ AddCalled
    /\ assembling
    /\ asmPc = "upsert"
    /\ \E r \in Records : task[r].st = "timeout"
    /\ Len(assemblyList) = 1

---------------------------------------------------------------------------
\* the last step was the catch block of the assembler
AssemblerThrew == lastEvent.ev = "assemblerUpsertFailed"

\* C33: when an iteration of the assembler throws (its upsertBatch fails),
\* the add calls rejected with the error are exactly those of the tasks the
\* iteration had taken from the queue; a task that was waiting in the queue
\* is not rejected with the error, an add call settled earlier keeps its
\* outcome, and the loop goes on: it is suspended in its next iteration, or
\* it has exited with the queue empty.
C33_ThrowRejectsChosen ==
    [][AssemblerThrew' =>
        /\ \A r \in Records :
              /\ (task[r].st = "chosen") <=> (task[r].st # "failed" /\ task'[r].st = "failed")
              /\ (\E i \in 1..Len(chosen) : chosen[i].rec = r) <=> (task[r].st = "chosen")
              /\ task[r].st = "queued" => task'[r].st \in {"queued", "chosen", "timeout"}
              /\ task[r].st \in {"resolved", "timeout", "failed"} => task'[r] = task[r]
        /\ \/ asmPc' = "upsert" /\ assembling'
           \/ asmPc' = "idle" /\ ~assembling' /\ assemblyList' = <<>>]_vars

\* an iteration has thrown after an earlier one had resolved its task, and
\* the loop is in its next iteration with a task that was waiting
C33_Witness ==
    /\ AssemblerThrew
    /\ \E r \in Records : Resolved(r)
    /\ \E r \in Records : task[r].st = "failed"
    /\ \E r \in Records : task[r].st \in {"queued", "chosen"}
    /\ asmPc = "upsert"

---------------------------------------------------------------------------
\* the batches the store holds (written by the assembler, or left by an
\* earlier run) whose processBatch has not made its final upsertBatch
Incomplete == {b \in Batches : persisted[b] # <<>> /\ batches[b].pc # "done"}

\* the batches init() has not yet put in the slot
AwaitingInit == {incompleteBatches[i] : i \in 1..Len(incompleteBatches)}

\* C34: at most two batches of the processor are persisted and not yet
\* completed: the one processBatch is working on, and the one that is in
\* the slot (being assembled or waiting for its dispatch) or, at startup,
\* waiting for init() to put it in the slot.
C34_AtMostTwoIncomplete ==
    /\ Cardinality(Incomplete) <= 2
    /\ \A b \in Incomplete : Processing(b) \/ b = assemblyBatch \/ b \in AwaitingInit
    /\ Cardinality({b \in Incomplete : b = assemblyBatch \/ b \in AwaitingInit}) <= 2
    /\ Cardinality({b \in Incomplete : Processing(b)}) <= 1

\* two incomplete batches of this run: one being retried by processBatch,
\* the next persisted in the slot with its timer fired and its dispatch
\* waiting, after an earlier batch was completed
C34_Witness ==
    /\ Cardinality(Incomplete \ Recovered) = 2
    /\ \E b \in Incomplete : batches[b].pc = "sleep"
    /\ assemblyBatch \in Incomplete
    /\ \E w \in 1..Len(waiters) : waiters[w].origin = "timer"
    /\ \E b \in Batches : batches[b].pc = "done"

---------------------------------------------------------------------------
\* this step is a dispatchBatch called by the dispatch timer that takes
\* batch b out of the slot and hands it to processBatch
TimerSeals(b) ==
    /\ assemblyBatch = b
    /\ assemblyBatch' # b
    /\ batches'[b].starts > batches[b].starts
    /\ \/ lastEvent'.ev = "timer"
       \/ /\ lastEvent'.ev = "dispatchResumed"
          /\ microtasks # <<>>
          /\ Head(microtasks).origin = "timer"

\* C35: a batch is sealed by the dispatch timer, whichever batch the timer
\* was armed for, only when batchTimeoutArrivallMS has passed since the last
\* record was added to it with no other record added, or when the batch was
\* created at least batchTimeoutOverallMS ago.
C35_TimerSealsAfterQuiet ==
    [][\A b \in Batches :
          TimerSeals(b) =>
              \/ batches[b].sinceRecord >= batchTimeoutArrivallMS
              \/ batches[b].age >= batchTimeoutOverallMS]_vars

---------------------------------------------------------------------------
\* record r is in what the store holds of batch b
PersistedIn(r, b) == \E i \in 1..Len(persisted[b]) : persisted[b][i] = r

\* batch b, holding record r, has been passed to the batch callback
DeliveredIn(r, b) == batches[b].starts >= 1 /\ Positions(r, b) # {}

\* C36: a record whose add call was rejected, because it timed out in the
\* queue or because the upsertBatch of its iteration failed, is in no batch
\* that the store holds or that was passed to the batch callback.
C36_RejectedNeverDelivered ==
    \A r \in Records :
        Rejected(r) => \A b \in Batches : ~PersistedIn(r, b) /\ ~DeliveredIn(r, b)

---------------------------------------------------------------------------
\* the last step was a resumption of the assembler loop
AssemblerResumed ==
    lastEvent.ev \in {"assemblerUpsertOk", "assemblerUpsertFailed", "assemblerResumed"}

\* C37: no wake-up is lost.  Whenever a task waits in the assembly queue the
\* assembling flag is set (an assembler loop is running); a waiting task is
\* taken only by a resumption of that loop; and the loop clears the flag
\* only with the queue empty, every task pushed while it was suspended
\* taken into a batch or evicted as stale.
C37_NoLostWakeup ==
    /\ [](assemblyList # <<>> => assembling /\ AssemblerRunning)
    /\ [](\A r \in Records : task[r].st = "queued" <=> Queued(r))
    /\ [][\A r \in Records :
            (task[r].st = "queued" /\ task'[r].st = "chosen")
                => assembling /\ AssemblerResumed']_vars
    /\ [][(assembling /\ ~assembling') =>
            /\ assemblyList' = <<>>
            /\ \A r \in Records : task'[r].st # "queued"]_vars

\* the loop, resumed from a successful upsertBatch, has resolved a task and
\* taken the task that add pushed while it was suspended
C37_Witness ==
    /\ lastEvent.ev = "assemblerUpsertOk"
    /\ asmPc = "upsert"
    /\ assemblyList = <<>>
    /\ \E r \in Records, q \in Records :
          r < q /\ Resolved(r) /\ task[q].st = "chosen"

---------------------------------------------------------------------------
\* every add call the callers will make has been made
AddsStopped == nextRec = MaxRecords

\* the processor has nothing left to do: nothing queued, no assembler
\* running, nothing in the slot, no batch inside processBatch
Drained ==
    /\ assemblyList = <<>>
    /\ ~assembling
    /\ assemblyBatch = 0
    /\ \A b \in Batches : ~Processing(b)

\* C38: once the add calls have stopped, and as the store and the batch
\* callback succeed in the end, the processor reaches the state with an
\* empty queue, an empty slot and no batch in flight, having told its owner
\* through the idle callback; this also when upsertBatch calls of the
\* assembler failed before.  No batch stays in the slot for ever.
C38_EventuallyIdle ==
    AddsStopped ~> (Drained /\ completeCalls >= 1)

---------------------------------------------------------------------------
\* the dispatch timers that are armed
Armed == {h \in 1..Len(timers) : timers[h].st = "armed"}

\* C39: at most one dispatch timer is armed, and whenever one is armed it is
\* the one the processor holds (this.dispatchTimeout) and the slot holds a
\* batch with at least one record that has not been handed to processBatch:
\* a dispatch cancels the timer, and no timer is armed for a batch that has
\* left the slot.
C39_TimerHasBatch ==
    /\ Cardinality(Armed) <= 1
    /\ \A h \in Armed :
          /\ h = dispatchTimeout
          /\ assemblyBatch # 0
          /\ Len(batches[assemblyBatch].records) >= 1
          /\ batches[assemblyBatch].starts = 0

---------------------------------------------------------------------------
\* the promise of add(r) is pending: its task waits in the queue, or the
\* assembler has taken it and not yet resolved or rejected it
Pending(r) == task[r].st \in {"queued", "chosen"}

Settled(r) == Resolved(r) \/ Rejected(r)

\* C40: every add call settles in the end: as every upsertBatch returns and
\* the batch callback succeeds in the end, no task stays for ever in the
\* queue or taken by the assembler and unsettled.  A task that was taken
\* and is not settled is held by the suspended assembler, which settles it
\* when it resumes.
C40_AddSettles ==
    /\ [](\A r \in Records :
            task[r].st = "chosen" =>
                AssemblerRunning /\ \E i \in 1..Len(chosen) : chosen[i].rec = r)
    /\ \A r \in Records : Pending(r) ~> Settled(r)

\* an add call has settled that the assembler had taken while an earlier
\* batch was in its retry sleep, after waiting for that batch to complete
C40_Witness ==
    /\ lastEvent.ev = "assemblerResumed"
    /\ \E r \in Records : Resolved(r) /\ task[r].batchID >= 2
    /\ \E b \in Batches : batches[b].pc = "done" /\ batches[b].starts >= 1
    /\ \E r \in Records : Rejected(r)

=============================================================================
